---- MODULE Spec2Model ----
(***************************************************************************)
(* A model of SLDC (segment, locate, dispatch, classify): the tile         *)
(* topology of sldc/image.py, the cross-tile polygon merger of             *)
(* sldc/merger.py, the dispatcher/classifier of sldc/dispatcher.py and the *)
(* parallel pipeline of sldc/workflow.py.                                  *)
(*                                                                         *)
(* The module holds several specifications over one set of variables; each *)
(* specification drives the variables of one component and leaves the      *)
(* others at their idle value:                                             *)
(*   SpecTopology   TileTopology and its iterator                          *)
(*   SpecCalls      the methods of TileTopology, called with any identifier *)
(*   SpecBorders    SkipBordersTileTopology and FixedSizeTileTopology      *)
(*   SpecPool       the pool of a Workflow and its n_jobs                  *)
(*   SpecTiming     WorkflowTiming.start, end, total and the statistics    *)
(*   SpecMergeTimings  merge_timings and WorkflowTiming.merge              *)
(*   SpecReportTiming  report_timing                                       *)
(*   SpecInformation   WorkflowInformation.merge                           *)
(*   SpecTilePolygons  TilePolygons and its polygons by side               *)
(*   SpecUnionFind  UnionFind                                              *)
(*   SpecMerge      SemanticMerger.merge on labelled polygons              *)
(*   SpecMergeFixed the same merge with a FixedSizeTileTopology            *)
(*   SpecDispatch   DispatcherClassifier.dispatch_classify_batch           *)
(*   Spec           SLDCWorkflow.process, with its parallel workers        *)
(*   SpecSegmentBatch  the segment/locate phase, by segmentation batch size *)
(***************************************************************************)
EXTENDS Integers, Sequences, FiniteSets, TLC

VARIABLES
    topo,        \* the TileTopology under study: image size, tile size, overlap
    it_next,     \* TileTopologyIterator: next identifier to yield
    it_tile,     \* TileTopologyIterator: the tile yielded last (or NoTile)
    it_covered,  \* pixels of the image seen in a yielded tile so far
    tt_call,     \* the last call made on a topology: method, identifier, outcome
    m_in,        \* SemanticMerger.merge: its arguments (tolerance, tiles, polygons, labels)
    m_pc,        \* SemanticMerger.merge: where the call stands
    m_records,   \* merge: polygons_dict, labels_dict and tiles_dict, by polygon identifier
    geom_uf,     \* merge: the nodes of the UnionFind geom_uf
    m_cur,       \* merge: the (tile, side) pair the loops stand at
    m_unions,    \* merge: the pairs handed to geom_uf.union so far (history)
    m_out,       \* merge: the value returned
    d_in,        \* dispatch_classify_batch: the rules, their labels, the polygons
    d_pc,        \* dispatch_classify_batch: where the call stands
    d_st,        \* dispatch_classify_batch: its local variables
    d_out,       \* dispatch_classify_batch: the value returned
    image,       \* process: the image, by what fetching and segmenting each tile gives
    workflow,    \* process: the SLDCWorkflow object (tolerance, dispatcher, flags)
    n_jobs,      \* Workflow._n_jobs
    pool,        \* Workflow._pool: None, or the n_jobs of the Parallel pool
    wf_pc,       \* process: the phase the call is in
    sl_batches,  \* segment/locate: the batches of tile identifiers submitted
    sl_workers,  \* segment/locate: per batch, the state of _batch_segment_locate
    sl_finished, \* segment/locate: the batches in the order they returned (history)
    tiles_polygons, \* segment/locate: the (tile, polygons) list collected
    wf_polygons, \* process: the merged polygons
    dc_batches,  \* dispatch/classify: the batches of polygons submitted
    dc_workers,  \* dispatch/classify: per batch, the result of _dc_with_timing
    dc_finished, \* dispatch/classify: the batches in the order they returned (history)
    wf_out,      \* process: the WorkflowInformation returned
    pool_made,   \* Workflow: the number of Parallel pools _set_pool has built
    pool_op,     \* Workflow: the last use of the pool or assignment of n_jobs
    timing,      \* WorkflowTiming: the root, the starts and the durations per phase
    tm_clock,    \* timeit.default_timer: the last value read
    tm_call,     \* WorkflowTiming: the last call of start or end, and its outcome
    tm_pairs,    \* WorkflowTiming: per phase, whether it is started and its completed pairs
    tm_merge,    \* merge_timings: the two timings, before and after, and the result
    wi_merge,    \* WorkflowInformation.merge: the two objects, before and after, and the outcome
    tp_call,     \* TilePolygons: the last object built and side asked, and the outcome
    uf_nodes,    \* UnionFind._nodes of the structure under study
    uf_links,    \* UnionFind: the sets of elements the unions made so far link (history)
    uf_call      \* UnionFind: the last call of union, find or same, and its outcome

iter_vars == <<it_next, it_tile, it_covered, tt_call>>
merge_vars == <<m_in, m_pc, m_records, geom_uf, m_cur, m_unions, m_out>>
disp_vars == <<d_in, d_pc, d_st, d_out>>
wf_vars == <<image, workflow, n_jobs, pool, wf_pc, sl_batches, sl_workers, sl_finished,
             tiles_polygons, wf_polygons, dc_batches, dc_workers, dc_finished, wf_out>>
pl_vars == <<pool_made, pool_op>>
tm_vars == <<timing, tm_clock, tm_call, tm_pairs, tm_merge>>
lib_vars == <<wi_merge, tp_call, uf_nodes, uf_links, uf_call>>
vars == <<topo, iter_vars, merge_vars, disp_vars, wf_vars, pl_vars, tm_vars, lib_vars>>

(***************************************************************************)
(* Bounds of the model.                                                    *)
(***************************************************************************)
MaxImage == 5      \* image width and height range over 1..MaxImage
MaxTile == 3       \* tile max width and height range over 1..MaxTile
MaxPolys == 4      \* merge: at most MaxPolys polygons in an input
MaxTol == 2        \* merge: the tolerance ranges over 0..MaxTol
NumLabels == 2     \* merge: the labels range over 1..NumLabels
MaxRules == 2      \* dispatch: at most MaxRules rules (and classifiers)
MaxBatch == 3      \* dispatch: at most MaxBatch polygons in a call
MaxJobs == 4       \* process: n_jobs ranges over 1..MaxJobs
MaxFound == 3      \* process: at most MaxFound polygons located in an image
IdMargin == 2      \* topology calls: identifiers from 1 - IdMargin to tile_count + IdMargin
MaxParts == 6      \* partition_identifiers: n_batches ranges over 1..MaxParts
MaxPools == 3      \* Workflow: at most MaxPools pools are built in a behaviour
MaxCalls == 6      \* WorkflowTiming: at most MaxCalls calls of start and end
MaxClock == 2      \* WorkflowTiming: the timer reads 0..MaxClock, durations likewise
MaxTimes == 1      \* merge_timings: at most MaxTimes durations per phase of an input

\* Python's None where an identifier is expected: 0 is never an identifier.
None == 0

Min(a, b) == IF a < b THEN a ELSE b
Max(a, b) == IF a > b THEN a ELSE b

(***************************************************************************)
(* TileTopology (sldc/image.py).  A topology is the record of the fields   *)
(* set by TileTopology.__init__: the image's width and height, the tiles'  *)
(* maximal width and height, and the overlap.                              *)
(***************************************************************************)
Topologies(maxImage, maxTile) ==
    { [iw |-> w, ih |-> h, mw |-> tw, mh |-> th, ov |-> o] :
        w \in 1..maxImage, h \in 1..maxImage,
        tw \in 1..maxTile, th \in 1..maxTile, o \in 0..(maxTile - 1) }

\* The constructor's documented precondition: 0 <= overlap < min(tile sizes).
ValidTopology(t) == t.ov >= 0 /\ t.ov < Min(t.mw, t.mh)

\* math.ceil(float(a) / b) for integers a >= 0, b > 0.
CeilDiv(a, b) == (a + b - 1) \div b

tile_count_1d_div_floor(length, tile_length, overlap) ==
    IF length < tile_length THEN 1
    ELSE (length - overlap) \div (tile_length - overlap)

\* tile_count_1d with the overlap left out of the length to cover.
tile_count_1d_whole_length(length, tile_length, overlap) ==
    IF length < tile_length THEN 1
    ELSE CeilDiv(length, tile_length - overlap)

tile_count_1d(length, tile_length, overlap) ==
    IF length < tile_length THEN 1
    ELSE CeilDiv(length - overlap, tile_length - overlap)

tile_horizontal_count(t) == tile_count_1d(t.iw, t.mw, t.ov)

tile_vertical_count(t) == tile_count_1d(t.ih, t.mh, t.ov)

tile_count(t) == tile_vertical_count(t) * tile_horizontal_count(t)

\* _tile_coord with the identifiers running down the columns.
tile_coord_column_major(t, identifier) ==
    [row |-> (identifier - 1) % tile_vertical_count(t),
     col |-> (identifier - 1) \div tile_vertical_count(t)]

\* _tile_coord: (row, col) of an identifier, rows and columns from 0.
tile_coord(t, identifier) ==
    [row |-> (identifier - 1) \div tile_horizontal_count(t),
     col |-> (identifier - 1) % tile_horizontal_count(t)]

\* _check_identifier: TRUE when the identifier passes (no ValueError).
check_identifier(t, identifier) == ~(identifier > tile_count(t))

tile_offset(t, identifier) ==
    LET rc == tile_coord(t, identifier)
    IN  [x |-> rc.col * (t.mw - t.ov), y |-> rc.row * (t.mh - t.ov)]

\* Image._check_tile_offset
check_tile_offset(t, offset) ==
    /\ 0 <= offset.x /\ offset.x < t.iw
    /\ 0 <= offset.y /\ offset.y < t.ih

\* Image.tile, called by TileTopology.tile: the tile's size is clamped to the
\* image; an offset outside the image is an IndexError.
image_tile(t, offset, identifier) ==
    IF ~check_tile_offset(t, offset) THEN [err |-> "IndexError"]
    ELSE [err |-> "ok", identifier |-> identifier, offset |-> offset,
          width |-> Min(t.mw, t.iw - offset.x),
          height |-> Min(t.mh, t.ih - offset.y)]

\* TileTopology.tile
tile(t, identifier) ==
    IF ~check_identifier(t, identifier) THEN [err |-> "ValueError"]
    ELSE image_tile(t, tile_offset(t, identifier), identifier)

\* The pixels (x, y) of the image, and those of a tile.
ImagePixels(t) == (0..(t.iw - 1)) \X (0..(t.ih - 1))

TilePixels(tl) ==
    IF tl.err # "ok" THEN {}
    ELSE (tl.offset.x..(tl.offset.x + tl.width - 1))
            \X (tl.offset.y..(tl.offset.y + tl.height - 1))

\* TileTopology.tile_neighbours without the test of the row of the left and
\* right tiles.
tile_neighbours_wrap(t, identifier) ==
    LET count == tile_count(t)
        h_tile_count == tile_horizontal_count(t)
    IN  <<IF identifier - h_tile_count >= 1 THEN identifier - h_tile_count ELSE None,
          IF identifier + h_tile_count <= count THEN identifier + h_tile_count ELSE None,
          IF identifier > 1 THEN identifier - 1 ELSE None,
          IF identifier < count THEN identifier + 1 ELSE None>>

\* TileTopology.tile_neighbours: <<top, bottom, left, right>>, None where the
\* neighbour does not exist.
tile_neighbours(t, identifier) ==
    LET count == tile_count(t)
        h_tile_count == tile_horizontal_count(t)
        tile_row == tile_coord(t, identifier).row
        top == IF identifier - h_tile_count >= 1
               THEN identifier - h_tile_count ELSE None
        bottom == IF identifier + h_tile_count <= count
                  THEN identifier + h_tile_count ELSE None
        left0 == IF identifier > 1 THEN identifier - 1 ELSE None
        left == IF left0 # None /\ tile_coord(t, left0).row # tile_row
                THEN None ELSE left0
        right0 == IF identifier < count THEN identifier + 1 ELSE None
        right == IF right0 # None /\ tile_coord(t, right0).row # tile_row
                 THEN None ELSE right0
    IN  <<top, bottom, left, right>>

\* A call of a method of a topology, with what it raises ("ok" when it
\* returns) and what it returns.
Call(method, identifier, err, value) ==
    [method |-> method, id |-> identifier, err |-> err, value |-> value]

\* TileTopology.tile_offset(identifier), _check_identifier included.
call_tile_offset(t, identifier) ==
    IF ~check_identifier(t, identifier)
    THEN Call("tile_offset", identifier, "ValueError", None)
    ELSE Call("tile_offset", identifier, "ok", tile_offset(t, identifier))

\* TileTopology.tile(identifier); the coordinates _tile_coord gives it are
\* kept with the tile.
call_tile(t, identifier) ==
    LET tl == tile(t, identifier)
    IN  Call("tile", identifier, tl.err,
             [tile |-> tl, coord |-> tile_coord(t, identifier)])

\* TileTopology.tile_neighbours(identifier), _check_identifier included.
call_tile_neighbours(t, identifier) ==
    IF ~check_identifier(t, identifier)
    THEN Call("tile_neighbours", identifier, "ValueError", None)
    ELSE Call("tile_neighbours", identifier, "ok", tile_neighbours(t, identifier))

\* The properties tile_horizontal_count, tile_vertical_count and tile_count.
call_tile_count(t) ==
    Call("tile_count", None, "ok",
         [horizontal |-> tile_horizontal_count(t),
          vertical |-> tile_vertical_count(t),
          count |-> tile_count(t)])

(***************************************************************************)
(* SkipBordersTileTopology and FixedSizeTileTopology (sldc/image.py): the  *)
(* two topologies built from a regular one so that every tile has the      *)
(* maximal size.  Both keep the fields of the regular topology.            *)
(***************************************************************************)
\* _borders_have_expected_size: whether the last tile of the first row, and
\* the first tile of the last row, lack the maximal size.
borders_have_expected_size(t) ==
    LET n_h == tile_horizontal_count(t)
        n_v == tile_vertical_count(t)
        h_tile == tile(t, n_h)
        v_tile == tile(t, (n_v - 1) * n_h + 1)
    IN  [right_not_ok |-> h_tile.width # t.mw \/ h_tile.height # t.mh,
         bottom_not_ok |-> v_tile.width # t.mw \/ v_tile.height # t.mh]

\* SkipBordersTileTopology.__init__: the regular topology it is built from,
\* whose fields it copies, and the fields _skip_h and _skip_v.
SkipBordersTileTopology(t) ==
    LET borders == borders_have_expected_size(t)
    IN  [parent |-> t,
         skip_h |-> borders.right_not_ok,
         skip_v |-> borders.bottom_not_ok]

skip_tile_horizontal_count(st) ==
    tile_horizontal_count(st.parent) - (IF st.skip_h THEN 1 ELSE 0)

skip_tile_vertical_count(st) ==
    tile_vertical_count(st.parent) - (IF st.skip_v THEN 1 ELSE 0)

\* tile_count, inherited: the product of the two overridden counts.
skip_tile_count(st) == skip_tile_vertical_count(st) * skip_tile_horizontal_count(st)

\* _tile_coord, inherited: it divides by the overridden horizontal count.
skip_tile_coord(st, identifier) ==
    [row |-> (identifier - 1) \div skip_tile_horizontal_count(st),
     col |-> (identifier - 1) % skip_tile_horizontal_count(st)]

\* tile, inherited: _check_identifier against the overridden tile_count, then
\* tile_offset from the overridden counts.  Without a column left, _tile_coord
\* divides by zero.
skip_tile(st, identifier) ==
    IF identifier > skip_tile_count(st) THEN [err |-> "ValueError"]
    ELSE IF skip_tile_horizontal_count(st) = 0 THEN [err |-> "ZeroDivisionError"]
    ELSE LET rc == skip_tile_coord(st, identifier)
             t == st.parent
         IN  image_tile(t, [x |-> rc.col * (t.mw - t.ov),
                            y |-> rc.row * (t.mh - t.ov)], identifier)

\* _convert_id without the renumbering of the rows.
skip_convert_id_same(st, parent_identifier) ==
    IF parent_identifier = None THEN None
    ELSE LET rc == tile_coord(st.parent, parent_identifier)
         IN  IF st.skip_h /\ rc.col = tile_horizontal_count(st.parent) - 1 THEN None
             ELSE IF st.skip_v /\ rc.row = tile_vertical_count(st.parent) - 1 THEN None
             ELSE parent_identifier

\* _convert_id: the identifier in this topology of a tile of the parent, None
\* for a skipped tile.
skip_convert_id(st, parent_identifier) ==
    IF parent_identifier = None THEN None
    ELSE LET rc == tile_coord(st.parent, parent_identifier)
         IN  IF st.skip_h /\ rc.col = tile_horizontal_count(st.parent) - 1 THEN None
             ELSE IF st.skip_v /\ rc.row = tile_vertical_count(st.parent) - 1 THEN None
             ELSE parent_identifier - (IF st.skip_h THEN rc.row ELSE 0)

\* SkipBordersTileTopology.tile_neighbours: no _check_identifier of its own;
\* the parent checks the identifier it is given.
skip_tile_neighbours(st, identifier) ==
    IF skip_tile_horizontal_count(st) = 0
    THEN Call("skip.tile_neighbours", identifier, "ZeroDivisionError", None)
    ELSE LET row == skip_tile_coord(st, identifier).row
             parent_identifier == identifier + (IF st.skip_h THEN row ELSE 0)
             parent == call_tile_neighbours(st.parent, parent_identifier)
         IN  IF parent.err # "ok"
             THEN Call("skip.tile_neighbours", identifier, parent.err, None)
             ELSE Call("skip.tile_neighbours", identifier, "ok",
                       [i \in 1..4 |-> skip_convert_id(st, parent.value[i])])

\* FixedSizeTileTopology.tile_offset with the last column left where it is.
fixed_tile_offset_rows_only(t, identifier) ==
    LET rc == tile_coord(t, identifier)
        off == tile_offset(t, identifier)
        off_y == IF rc.row = tile_vertical_count(t) - 1
                 THEN off.y - (t.mh - (t.ih - off.y)) ELSE off.y
    IN  [x |-> Max(off.x, 0), y |-> Max(off_y, 0)]

\* FixedSizeTileTopology.tile_offset, after the identifier passed
\* _check_identifier in the inherited tile_offset.
fixed_tile_offset(t, identifier) ==
    LET rc == tile_coord(t, identifier)
        off == tile_offset(t, identifier)
        off_y == IF rc.row = tile_vertical_count(t) - 1
                 THEN off.y - (t.mh - (t.ih - off.y)) ELSE off.y
        off_x == IF rc.col = tile_horizontal_count(t) - 1
                 THEN off.x - (t.mw - (t.iw - off.x)) ELSE off.x
    IN  [x |-> Max(off_x, 0), y |-> Max(off_y, 0)]

\* tile, inherited by FixedSizeTileTopology, with the overridden tile_offset.
fixed_tile(t, identifier) ==
    IF ~check_identifier(t, identifier) THEN [err |-> "ValueError"]
    ELSE image_tile(t, fixed_tile_offset(t, identifier), identifier)

\* FixedSizeTileTopology.__init__: a TileTopology of the same image and
\* parameters; the record keeps that it is of the subclass.
FixedSizeTileTopology(t) ==
    [iw |-> t.iw, ih |-> t.ih, mw |-> t.mw, mh |-> t.mh, ov |-> t.ov, fixed |-> TRUE]

\* topology.tile(identifier), the method being that of the class of the
\* topology.
topology_tile(t, identifier) ==
    IF "fixed" \in DOMAIN t THEN fixed_tile(t, identifier) ELSE tile(t, identifier)

\* The calls on the two topologies.
call_skip_tile(st, identifier) ==
    LET tl == skip_tile(st, identifier)
    IN  Call("skip.tile", identifier, tl.err, tl)

call_fixed_tile(t, identifier) ==
    LET tl == fixed_tile(t, identifier)
    IN  Call("fixed.tile", identifier, tl.err, tl)

(***************************************************************************)
(* Geometry.  A polygon is an axis-aligned closed rectangle with integer   *)
(* corners, [x0, x1] x [y0, y1], in the coordinates of the image.  The      *)
(* shapely predicates the merger uses are computed exactly on rectangles.  *)
(***************************************************************************)
Rect(x0, y0, x1, y1) == [x0 |-> x0, y0 |-> y0, x1 |-> x1, y1 |-> y1]

\* shapely.geometry.box(minx, miny, maxx, maxy)
bbox(minx, miny, maxx, maxy) == Rect(minx, miny, maxx, maxy)

\* shapely.affinity.translate
translate(r, xoff, yoff) ==
    Rect(r.x0 + xoff, r.y0 + yoff, r.x1 + xoff, r.y1 + yoff)

\* box.intersects(polygon): the two closed rectangles share a point.
intersects(a, b) ==
    /\ a.x0 <= b.x1 /\ b.x0 <= a.x1
    /\ a.y0 <= b.y1 /\ b.y0 <= a.y1

\* The gap between two intervals (0 when they meet).
Gap(a0, a1, b0, b1) == Max(0, Max(b0 - a1, a0 - b1))

\* The square of poly1.distance(poly2), the Euclidean distance of the two
\* rectangles.
Dist2(a, b) ==
    LET dx == Gap(a.x0, a.x1, b.x0, b.x1)
        dy == Gap(a.y0, a.y1, b.y0, b.y1)
    IN  dx * dx + dy * dy

\* poly1.distance(poly2) < tolerance, for a tolerance >= 0.
distance_lt(a, b, tolerance) == Dist2(a, b) < tolerance * tolerance

distance_le(a, b, tolerance) == Dist2(a, b) <= tolerance * tolerance

area(r) == (r.x1 - r.x0) * (r.y1 - r.y0)

(***************************************************************************)
(* UnionFind (sldc/merger.py).  _nodes maps an element to (parent, rank).  *)
(* None is modelled by 0, which is never an element.                       *)
(***************************************************************************)

\* UnionFind.__init__
uf_init(elements) == [e \in elements |-> [parent |-> e, rank |-> 0]]

uf_has(nodes, elem) == elem \in DOMAIN nodes

\* UnionFind._find, with its path compression: the nodes after the call, and
\* the (parent, rank) pair returned.
RECURSIVE uf_find(_, _)
uf_find(nodes, elem) ==
    IF ~uf_has(nodes, elem) THEN [nodes |-> nodes, parent |-> None, rank |-> -1]
    ELSE LET p == nodes[elem].parent
             r == nodes[elem].rank
         IN  IF p = elem THEN [nodes |-> nodes, parent |-> p, rank |-> r]
             ELSE LET up == uf_find(nodes, p)
                  IN  [nodes |-> [up.nodes EXCEPT
                                    ![elem] = [parent |-> up.parent, rank |-> r]],
                       parent |-> up.parent, rank |-> up.rank]

\* A union that links the two elements instead of their roots.
uf_union_elements(nodes, elem1, elem2) ==
    IF ~uf_has(nodes, elem1) \/ ~uf_has(nodes, elem2) THEN nodes
    ELSE LET f1 == uf_find(nodes, elem1)
             f2 == uf_find(f1.nodes, elem2)
             n  == f2.nodes
         IN  IF f1.parent = f2.parent THEN n
             ELSE [n EXCEPT ![elem2] = [parent |-> elem1, rank |-> f2.rank],
                            ![f1.parent] = [parent |-> f1.parent, rank |-> f1.rank + 1]]

\* UnionFind.union: the nodes after the call.
uf_union(nodes, elem1, elem2) ==
    IF ~uf_has(nodes, elem1) \/ ~uf_has(nodes, elem2) THEN nodes
    ELSE LET f1 == uf_find(nodes, elem1)
             f2 == uf_find(f1.nodes, elem2)
             n  == f2.nodes
         IN  IF f1.parent = f2.parent THEN n
             ELSE IF f1.rank > f2.rank
                  THEN [n EXCEPT
                          ![f1.parent] = [parent |-> f2.parent, rank |-> f1.rank],
                          ![f2.parent] = [parent |-> f2.parent, rank |-> f2.rank + 1]]
                  ELSE [n EXCEPT
                          ![f2.parent] = [parent |-> f1.parent, rank |-> f2.rank],
                          ![f1.parent] = [parent |-> f1.parent, rank |-> f1.rank + 1]]

\* UnionFind.union: the value returned, False, True or the root kept.
uf_union_value(nodes, elem1, elem2) ==
    IF ~uf_has(nodes, elem1) \/ ~uf_has(nodes, elem2) THEN [bool |-> FALSE, root |-> None]
    ELSE LET f1 == uf_find(nodes, elem1)
             f2 == uf_find(f1.nodes, elem2)
         IN  IF f1.parent = f2.parent THEN [bool |-> TRUE, root |-> None]
             ELSE IF f1.rank > f2.rank THEN [bool |-> TRUE, root |-> f2.parent]
                  ELSE [bool |-> TRUE, root |-> f1.parent]

\* UnionFind.same: the nodes after the two finds, and the answer.
uf_same(nodes, elem1, elem2) ==
    LET f1 == uf_find(nodes, elem1)
    IN  IF f1.parent = None THEN [nodes |-> f1.nodes, same |-> FALSE]
        ELSE LET f2 == uf_find(f1.nodes, elem2)
             IN  [nodes |-> f2.nodes, same |-> f1.parent = f2.parent]

\* UnionFind.connected_components: the elements are visited in the order of
\* the dictionary (insertion order, increasing identifiers); a component is
\* keyed by its root and comes at the place of its first visited member.
\* `comps` is the sequence of [root, members] built so far.
RECURSIVE uf_components_from(_, _, _, _)
uf_components_from(nodes, elems, i, comps) ==
    IF i > Len(elems) THEN [c \in 1..Len(comps) |-> comps[c].members]
    ELSE LET e == elems[i]
             f == IF nodes[e].parent = e
                  THEN [nodes |-> nodes, parent |-> e]
                  ELSE uf_find(nodes, e)
             at == { c \in 1..Len(comps) : comps[c].root = f.parent }
             next == IF at = {}
                     THEN Append(comps, [root |-> f.parent, members |-> <<e>>])
                     ELSE LET c == CHOOSE c \in at : TRUE
                          IN  [comps EXCEPT ![c].members = Append(@, e)]
         IN  uf_components_from(f.nodes, elems, i + 1, next)

connected_components(nodes, elems) == uf_components_from(nodes, elems, 1, <<>>)

\* UnionFind.connected_components: the nodes after the call, find having
\* compressed the path of every element that was not a root.
RECURSIVE uf_nodes_after_components(_, _, _)
uf_nodes_after_components(nodes, elems, i) ==
    IF i > Len(elems) THEN nodes
    ELSE LET e == elems[i]
         IN  uf_nodes_after_components(
                 IF nodes[e].parent = e THEN nodes ELSE uf_find(nodes, e).nodes,
                 elems, i + 1)

(***************************************************************************)
(* TilePolygons (sldc/merger.py): the polygons of one tile, grouped by the *)
(* sides of the tile they come close to.                                   *)
(***************************************************************************)
TOP == 0
BOTTOM == 1
LEFT == 2
RIGHT == 3
NONE == 4

\* The boxes of _compute_by_side left in the coordinates of the tile.
side_box_untranslated(tl, filter_dist, side) ==
    CASE side = TOP -> bbox(0, 0, tl.width, filter_dist)
      [] side = BOTTOM -> bbox(0, tl.height - filter_dist, tl.width, tl.height)
      [] side = LEFT -> bbox(0, 0, filter_dist, tl.height)
      [] side = RIGHT -> bbox(tl.width - filter_dist, 0, tl.width, tl.height)

\* The boxes of TilePolygons._compute_by_side, for a tile and a filter
\* distance, in the coordinates of the image.
side_box(tl, filter_dist, side) ==
    LET b == CASE side = TOP -> bbox(0, 0, tl.width, filter_dist)
               [] side = BOTTOM -> bbox(0, tl.height - filter_dist, tl.width, tl.height)
               [] side = LEFT -> bbox(0, 0, filter_dist, tl.height)
               [] side = RIGHT -> bbox(tl.width - filter_dist, 0, tl.width, tl.height)
    IN  translate(b, tl.offset.x, tl.offset.y)

\* TilePolygons._compute_by_side then polygons_by_side(side), for the
\* TilePolygons of tile `tile_id` holding the polygons `ids`.
polygons_by_side(t, tile_id, ids, polygons_dict, filter_dist, side) ==
    LET tl == topology_tile(t, tile_id)
        OnSide(id) == intersects(side_box(tl, filter_dist, side), polygons_dict[id])
        OnAny(id) == \E sd \in {TOP, BOTTOM, LEFT, RIGHT} :
                        intersects(side_box(tl, filter_dist, sd), polygons_dict[id])
        OnNone(id) == ~OnAny(id)
    IN  IF side = NONE THEN SelectSeq(ids, OnNone)
        ELSE SelectSeq(ids, OnSide)

\* The attributes TilePolygons.__init__ assigns, _by_side being the last.
TilePolygons_attributes ==
    { "_tile_id", "_topology", "_polygons_dict", "_filter_dist", "_by_side" }

\* TilePolygons.__init__, filter_dist being None when `given` is FALSE:
\* _compute_by_side subtracts the filter distance from the height of the
\* tile, which raises TypeError when it is None.
tile_polygons_init(t, tile_id, ids, polygons_dict, given, filter_dist) ==
    IF ~given
    THEN [err |-> "TypeError", given |-> given, by_side |-> <<>>]
    ELSE [err |-> "ok", given |-> given,
          by_side |-> [side \in TOP..NONE |->
                         polygons_by_side(t, tile_id, ids, polygons_dict, filter_dist, side)]]

\* The property TilePolygons.polygons: it reads self._polygons.
tile_polygons_polygons(tp) ==
    IF "_polygons" \in TilePolygons_attributes
    THEN [err |-> "ok", value |-> DOMAIN tp.by_side]
    ELSE [err |-> "AttributeError", value |-> <<>>]

\* TilePolygons.polygons_by_side(side), on a constructed object.
tile_polygons_by_side(tp, side) ==
    IF ~tp.given THEN tile_polygons_polygons(tp)
    ELSE [err |-> "ok", value |-> tp.by_side[side]]

opposite_side_same(side) == side

\* TilePolygons.opposite_side
opposite_side(side) ==
    CASE side = TOP -> BOTTOM
      [] side = BOTTOM -> TOP
      [] side = LEFT -> RIGHT
      [] side = RIGHT -> LEFT
      [] OTHER -> None

(***************************************************************************)
(* SemanticMerger (sldc/merger.py).                                        *)
(***************************************************************************)
\* _build_dicts: the polygons get the identifiers 1, 2, ... in the order of
\* the tiles of the input and, in a tile, of its list.  The dictionaries are
\* given as one sequence of records, indexed by polygon identifier.
RECURSIVE build_records(_, _, _)
build_records(input, i, j) ==
    IF i > Len(input.tiles) THEN <<>>
    ELSE IF j > Len(input.polygons[i]) THEN build_records(input, i + 1, 1)
    ELSE <<[tile |-> input.tiles[i],
            polygon |-> input.polygons[i][j],
            label |-> IF input.labelled THEN input.labels[i][j] ELSE 1]>>
         \o build_records(input, i, j + 1)

polygons_dict_of(records) == [id \in 1..Len(records) |-> records[id].polygon]

labels_dict_of(records) == [id \in 1..Len(records) |-> records[id].label]

\* The identifiers of the polygons of a tile, in increasing order.
tile_ids(records, tile_id) ==
    LET InTile(id) == records[id].tile = tile_id
    IN  SelectSeq([id \in 1..Len(records) |-> id], InTile)

\* The condition of _register_merge under which two polygons are united.
must_merge_le(poly1, poly2, label1, label2, tolerance) ==
    distance_le(poly1, poly2, tolerance) /\ label1 = label2

must_merge_any_label(poly1, poly2, label1, label2, tolerance) ==
    distance_lt(poly1, poly2, tolerance)

must_merge(poly1, poly2, label1, label2, tolerance) ==
    distance_lt(poly1, poly2, tolerance) /\ label1 = label2

\* _register_merge, as a loop over the pairs (polygons1[i], polygons2[j]), k
\* counting the pairs already seen.  Returns the nodes of geom_uf and the set
\* of the pairs handed to geom_uf.union.
RECURSIVE register_merge(_, _, _, _, _, _, _)
register_merge(nodes, unions, polygons1, polygons2, records, tolerance, k) ==
    IF k >= Len(polygons1) * Len(polygons2)
    THEN [nodes |-> nodes, unions |-> unions]
    ELSE LET poly_id1 == polygons1[(k \div Len(polygons2)) + 1]
             poly_id2 == polygons2[(k % Len(polygons2)) + 1]
             sm == uf_same(nodes, poly_id1, poly_id2)
         IN  IF sm.same
             THEN register_merge(sm.nodes, unions, polygons1, polygons2,
                                 records, tolerance, k + 1)
             ELSE IF must_merge(records[poly_id1].polygon, records[poly_id2].polygon,
                                records[poly_id1].label, records[poly_id2].label,
                                tolerance)
                  THEN register_merge(uf_union(sm.nodes, poly_id1, poly_id2),
                                      unions \cup {<<poly_id1, poly_id2>>},
                                      polygons1, polygons2, records, tolerance, k + 1)
                  ELSE register_merge(sm.nodes, unions, polygons1, polygons2,
                                      records, tolerance, k + 1)

\* The loops of merge run over the tiles of the input and the four sides; the
\* pair (tile index i, side s) is numbered 4 * (i - 1) + s.
cursor_tile(input, k) == input.tiles[(k \div 4) + 1]

cursor_side(k) == k % 4

cursor_neighbour(t, input, k) ==
    tile_neighbours(t, cursor_tile(input, k))[cursor_side(k) + 1]

\* The first pair from k on whose neighbour exists (the others `continue`).
RECURSIVE next_cursor(_, _, _)
next_cursor(t, input, k) ==
    IF k >= 4 * Len(input.tiles) THEN k
    ELSE IF cursor_neighbour(t, input, k) # None THEN k
    ELSE next_cursor(t, input, k + 1)

\* The body of the loops of merge for one tile and one side with a neighbour.
merge_step(t, input, records, nodes, unions, k) ==
    LET tile_id == cursor_tile(input, k)
        side == cursor_side(k)
        neighbour == cursor_neighbour(t, input, k)
        filter_dist == input.tolerance + t.ov
        pd == polygons_dict_of(records)
        curr_candidates ==
            polygons_by_side(t, tile_id, tile_ids(records, tile_id), pd,
                             filter_dist, side)
        neigh_candidates ==
            polygons_by_side(t, neighbour, tile_ids(records, neighbour), pd,
                             filter_dist, opposite_side(side))
    IN  register_merge(nodes, unions, curr_candidates, neigh_candidates,
                       records, input.tolerance, 0)

\* aggr_max_area_label: the labels are visited in increasing order (np.unique)
\* and a label replaces the current one when its total area is strictly larger.
label_area(records, component, l) ==
    LET RECURSIVE tot(_)
        tot(i) == IF i = 0 THEN 0
                  ELSE (IF records[component[i]].label = l
                        THEN area(records[component[i]].polygon) ELSE 0) + tot(i - 1)
    IN  tot(Len(component))

aggr_max_area_label(records, component) ==
    LET labels == { records[component[i]].label : i \in 1..Len(component) }
        RECURSIVE scan(_, _, _)
        scan(rest, max_area, max_label) ==
            IF rest = {} THEN max_label
            ELSE LET l == CHOOSE x \in rest : \A y \in rest : x <= y
                     a == label_area(records, component, l)
                 IN  IF a > max_area THEN scan(rest \ {l}, a, l)
                     ELSE scan(rest \ {l}, max_area, max_label)
    IN  scan(labels, -1, -1)

\* _do_merge: one output per connected component.  The polygon of a component
\* is the closing (dilation, union, erosion) of its members; it is given by
\* the set of its members.
do_merge(nodes, records) ==
    LET comps == connected_components(nodes, [id \in 1..Len(records) |-> id])
    IN  [c \in 1..Len(comps) |->
            IF Len(comps[c]) = 1
            THEN [polygon |-> {records[comps[c][1]].polygon},
                  label |-> records[comps[c][1]].label,
                  ids |-> comps[c]]
            ELSE [polygon |-> { records[comps[c][i]].polygon : i \in 1..Len(comps[c]) },
                  label |-> aggr_max_area_label(records, comps[c]),
                  ids |-> comps[c]]]

\* The loops of merge from pair k on.
RECURSIVE merge_loop(_, _, _, _, _)
merge_loop(t, input, records, nodes, k) ==
    LET c == next_cursor(t, input, k)
    IN  IF c >= 4 * Len(input.tiles) THEN nodes
        ELSE merge_loop(t, input, records,
                        merge_step(t, input, records, nodes, {}, c).nodes, c + 1)

\* SemanticMerger.merge: the merged polygons, with their labels.
merge(t, input) ==
    LET records == build_records(input, 1, 1)
    IN  IF Len(records) <= 0 THEN <<>>
        ELSE do_merge(merge_loop(t, input, records,
                                 uf_init(1..Len(records)), 0), records)

(***************************************************************************)
(* Dispatching and classification (sldc/dispatcher.py).                    *)
(*                                                                         *)
(* A polygon is given, as merge returns it, by the set of the rectangles   *)
(* it is made of.  What a rule looks at in a polygon is its kind, "large"  *)
(* when it is made of several rectangles: a DispatchingRule is the set of  *)
(* the kinds it evaluates to True.  A dispatch label is a string, NoLabel  *)
(* standing for None; the class a classifier predicts tells the classifier *)
(* and the polygon apart.                                                  *)
(***************************************************************************)
PolyKinds == {"small", "large"}
LabelNames == {"a", "b"}
NoLabel == "None"

kind_of(polygon) == IF Cardinality(polygon) >= 2 THEN "large" ELSE "small"

\* DispatchingRule.evaluate
evaluate(rule, polygon) == kind_of(polygon) \in rule

\* RuleBasedDispatcher._split_by_rule: the indexes of poly_indexes whose
\* polygon the rule evaluates to True, and the others.
split_by_rule(rule, polygons, poly_indexes) ==
    LET IsMatch(i) == evaluate(rule, polygons[i])
        IsNoMatch(i) == ~evaluate(rule, polygons[i])
    IN  [match |-> SelectSeq(poly_indexes, IsMatch),
         no_match |-> SelectSeq(poly_indexes, IsNoMatch)]

\* np.setdiff1d(remaining, match, assume_unique=True)
setdiff1d(remaining, match) ==
    LET Kept(i) == \A j \in 1..Len(match) : match[j] # i
    IN  SelectSeq(remaining, Kept)

\* The loop of RuleBasedDispatcher.dispatch_batch from rule i on.
RECURSIVE dispatch_rules_from(_, _, _, _, _)
dispatch_rules_from(rules, labels, polygons, i, st) ==
    IF i > Min(Len(rules), Len(labels)) THEN st.dispatch_labels
    ELSE IF Len(st.remaining) = 0 THEN st.dispatch_labels
    ELSE LET sp == split_by_rule(rules[i], polygons, st.remaining)
         IN  IF Len(sp.match) > 0
             THEN dispatch_rules_from(rules, labels, polygons, i + 1,
                    [dispatch_labels |->
                        [k \in 1..Len(polygons) |->
                            IF \E j \in 1..Len(sp.match) : sp.match[j] = k
                            THEN labels[i] ELSE st.dispatch_labels[k]],
                     remaining |-> setdiff1d(st.remaining, sp.match)])
             ELSE dispatch_rules_from(rules, labels, polygons, i + 1, st)

\* A dispatch_batch in which every rule is asked about every polygon, so that
\* the last matching rule labels a polygon.
rule_dispatch_batch_last(rules, labels, polygons) ==
    [k \in 1..Len(polygons) |->
        LET hits == { i \in 1..Len(rules) : evaluate(rules[i], polygons[k]) }
        IN  IF hits = {} THEN NoLabel
            ELSE labels[CHOOSE i \in hits : \A j \in hits : j <= i]]

\* RuleBasedDispatcher.dispatch_batch
rule_dispatch_batch(rules, labels, polygons) ==
    dispatch_rules_from(rules, labels, polygons, 1,
        [dispatch_labels |-> [k \in 1..Len(polygons) |-> NoLabel],
         remaining |-> [k \in 1..Len(polygons) |-> k]])

\* Dispatcher._transform_mapping: {v: i for i, v in enumerate(mapping)}, the
\* index counted from 0; a label listed twice keeps its last index.
transform_mapping(mapping) ==
    [v \in { mapping[i] : i \in 1..Len(mapping) } |->
        (CHOOSE i \in 1..Len(mapping) :
            mapping[i] = v /\ \A j \in 1..Len(mapping) : mapping[j] = v => j <= i) - 1]

\* Dispatcher.dispatch_map: the labels, and the index of each in the mapping
\* (-1 for a label that is not in the mapping).
dispatch_map(rules, labels, polygons) ==
    LET dispatch_labels == rule_dispatch_batch(rules, labels, polygons)
        mapping == transform_mapping(labels)
    IN  [labels |-> dispatch_labels,
         indexes |-> [k \in 1..Len(polygons) |->
                        IF dispatch_labels[k] \in DOMAIN mapping
                        THEN mapping[dispatch_labels[k]] ELSE -1]]

\* np.unique: the values of a sequence, in increasing order.
RECURSIVE SortedSeq(_)
SortedSeq(S) ==
    IF S = {} THEN <<>>
    ELSE LET m == CHOOSE x \in S : \A y \in S : x <= y
         IN  <<m>> \o SortedSeq(S \ {m})

unique(values) == SortedSeq({ values[k] : k \in 1..Len(values) })

\* classifiers[index] of a Python list of n classifiers: a negative index
\* counts from the end.
classifier_at(n, index) == IF index < 0 THEN n + index ELSE index

\* PolygonClassifier.predict_batch of classifier c, for one polygon: the class
\* names the classifier and the kind of the polygon; the probability is 1.0.
predict_class(c, polygon) == [by |-> c, polygon |-> polygon]

NoClass == [by |-> -1, polygon |-> {}]

\* dispatch_classify_batch: the test that skips the polygons not dispatched.
not_dispatched_never(index) == FALSE

not_dispatched(index) == index = -1

\* The positions of the polygons dispatched to `index`.
curr_disp_idx(disp_indexes, index) ==
    { k \in 1..Len(disp_indexes) : disp_indexes[k] = index }

\* dispatch_classify_batch, before the loop: the dispatch, and the arrays of
\* the predictions (None) and of the probabilities (0.0).
dc_begin(rules, labels, polygons) ==
    LET dm == dispatch_map(rules, labels, polygons)
    IN  [disp_labels |-> dm.labels,
         disp_indexes |-> dm.indexes,
         todo |-> unique(dm.indexes),
         predictions |-> [k \in 1..Len(polygons) |-> NoClass],
         probabilities |-> [k \in 1..Len(polygons) |-> 0],
         calls |-> <<>>]

\* dispatch_classify_batch: one turn of the loop over the unique dispatch
\* indexes.  `calls` lists the predict_batch calls made: the classifier and
\* the positions of the polygons handed to it.
dc_turn(rules, polygons, st) ==
    LET index == Head(st.todo)
        curr == curr_disp_idx(st.disp_indexes, index)
        c == classifier_at(Len(rules), index)
    IN  IF not_dispatched(index) THEN [st EXCEPT !.todo = Tail(@)]
        ELSE [st EXCEPT
                !.todo = Tail(@),
                !.calls = Append(@, [classifier |-> c, polygons |-> curr]),
                !.predictions = [k \in 1..Len(polygons) |->
                                    IF k \in curr THEN predict_class(c, polygons[k])
                                    ELSE @[k]],
                !.probabilities = [k \in 1..Len(polygons) |->
                                    IF k \in curr THEN 1 ELSE @[k]]]

RECURSIVE dc_loop(_, _, _)
dc_loop(rules, polygons, st) ==
    IF st.todo = <<>> THEN st ELSE dc_loop(rules, polygons, dc_turn(rules, polygons, st))

\* What dispatch_classify_batch returns (the timing apart).
dc_return(st) ==
    [predictions |-> st.predictions,
     probabilities |-> st.probabilities,
     dispatches |-> st.disp_labels]

\* DispatcherClassifier.dispatch_classify_batch
dispatch_classify_batch(rules, labels, polygons) ==
    dc_return(dc_loop(rules, polygons, dc_begin(rules, labels, polygons)))

(***************************************************************************)
(* WorkflowTiming (sldc/timing.py).  A phase is the sequence of the names  *)
(* its string has between the dots: "phase1.phase3" is <<"phase1",         *)
(* "phase3">>, ".root" is <<"", "root">> and "" is <<"">>.  A timing is    *)
(* its root (NoRoot for None), its dictionary _starts and its own items,   *)
(* the array of durations of each phase.                                   *)
(***************************************************************************)
NoRoot == <<>>

\* WorkflowTiming.__init__, for a valid root.
WorkflowTiming(root) == [root |-> root, starts |-> <<>>, times |-> <<>>]

\* _full_phase: "{root}.{phase}", or the phase without a root.
full_phase(root, phase) == IF root # NoRoot THEN root \o phase ELSE phase

\* _validate_phase: TRUE when the phase passes (no ValueError): its string is
\* not empty, neither starts nor ends with a dot and has no two dots in a row.
validate_phase(phase) == \A i \in 1..Len(phase) : phase[i] # ""

\* dict: d[key] = value, and d.pop(key).
dict_set(d, key, value) == [k \in DOMAIN d \cup {key} |-> IF k = key THEN value ELSE d[k]]

dict_pop(d, key) == [k \in DOMAIN d \ {key} |-> d[k]]

\* WorkflowTiming.start, the timer reading now.
timing_start(tm, phase, now) ==
    IF ~validate_phase(phase) THEN [err |-> "ValueError", timing |-> tm]
    ELSE [err |-> "ok",
          timing |-> [tm EXCEPT !.starts = dict_set(@, full_phase(tm.root, phase), now)]]

\* WorkflowTiming.end that leaves the start of the phase in _starts.
timing_end_keep_start(tm, phase, now) ==
    LET key == full_phase(tm.root, phase)
    IN  IF ~validate_phase(phase) THEN [err |-> "ValueError", timing |-> tm]
        ELSE IF key \notin DOMAIN tm.starts THEN [err |-> "KeyError", timing |-> tm]
        ELSE LET duration == now - tm.starts[key]
             IN  [err |-> "ok",
                  timing |-> [tm EXCEPT
                     !.times = IF key \notin DOMAIN @
                               THEN dict_set(@, key, <<duration>>)
                               ELSE dict_set(@, key, @[key] \o <<duration>>)]]

\* WorkflowTiming.end, the timer reading now.
timing_end(tm, phase, now) ==
    LET key == full_phase(tm.root, phase)
    IN  IF ~validate_phase(phase) THEN [err |-> "ValueError", timing |-> tm]
        ELSE IF key \notin DOMAIN tm.starts THEN [err |-> "KeyError", timing |-> tm]
        ELSE LET duration == now - tm.starts[key]
             IN  [err |-> "ok",
                  timing |-> [tm EXCEPT
                     !.starts = dict_pop(@, key),
                     !.times = IF key \notin DOMAIN @
                               THEN dict_set(@, key, <<duration>>)
                               ELSE dict_set(@, key, @[key] \o <<duration>>)]]

RECURSIVE np_sum(_)
np_sum(times) == IF times = <<>> THEN 0 ELSE Head(times) + np_sum(Tail(times))

RECURSIVE np_min(_)
np_min(times) ==
    IF Len(times) = 1 THEN times[1] ELSE Min(Head(times), np_min(Tail(times)))

RECURSIVE np_max(_)
np_max(times) ==
    IF Len(times) = 1 THEN times[1] ELSE Max(Head(times), np_max(Tail(times)))

\* WorkflowTiming.total
timing_total(tm, phase) ==
    LET key == full_phase(tm.root, phase)
    IN  IF ~validate_phase(phase) THEN [err |-> "ValueError", value |-> None]
        ELSE IF key \notin DOMAIN tm.times THEN [err |-> "ValueError", value |-> None]
        ELSE [err |-> "ok", value |-> np_sum(tm.times[key])]

\* WorkflowTiming.get_phase_statistics; the mean is kept as the sum and the
\* count it divides, the standard deviation is left out.
timing_get_phase_statistics(tm, phase) ==
    LET key == full_phase(tm.root, phase)
    IN  IF ~validate_phase(phase) THEN [err |-> "ValueError", value |-> None]
        ELSE IF key \notin DOMAIN tm.times THEN [err |-> "ValueError", value |-> None]
        ELSE [err |-> "ok",
              value |-> [count |-> Len(tm.times[key]),
                         mean |-> <<np_sum(tm.times[key]), Len(tm.times[key])>>,
                         min |-> np_min(tm.times[key]),
                         max |-> np_max(tm.times[key])]]

\* The names phases are made of, in the order sorted() puts them.
PhaseNames == <<"detect", "load", "merge", "sldc", "workflow">>

name_rank(name) == CHOOSE i \in 1..Len(PhaseNames) : PhaseNames[i] = name

\* The nodes, of a set, in the order of their last names.
RECURSIVE sorted_nodes(_)
sorted_nodes(S) ==
    IF S = {} THEN <<>>
    ELSE LET first == CHOOSE x \in S :
                         \A y \in S : name_rank(x[Len(x)]) <= name_rank(y[Len(y)])
         IN  <<first>> \o sorted_nodes(S \ {first})

\* get_phases_hierarchy, read at one node: the sub-phases that the keys of
\* the timing give to `parent` (the top-level phases for the empty parent).
hierarchy_children(keys, parent) ==
    { SubSeq(k, 1, Len(parent) + 1) :
        k \in { key \in keys : /\ Len(key) > Len(parent)
                               /\ SubSeq(key, 1, Len(parent)) = parent } }

\* _report_timing: `todo` holds the nodes still to visit, depth first; each
\* node is looked up with get_phase_statistics, then logged.
RECURSIVE report_from(_, _, _)
report_from(tm, todo, reported) ==
    IF todo = <<>> THEN [err |-> "ok", reported |-> reported]
    ELSE LET node == Head(todo)
             stats == timing_get_phase_statistics(tm, node)
         IN  IF stats.err # "ok" THEN [err |-> stats.err, reported |-> reported]
             ELSE report_from(tm,
                      sorted_nodes(hierarchy_children(DOMAIN tm.times, node)) \o Tail(todo),
                      Append(reported, node))

\* report_timing(timing, logger): the exception raised, if any, and the
\* nodes logged.
report_timing(tm) ==
    report_from(tm, sorted_nodes(hierarchy_children(DOMAIN tm.times, <<>>)), <<>>)

\* WorkflowTiming.merge with the times of other put in place of self's.
timing_merge_replace(self, other) ==
    [self EXCEPT !.times =
        [k \in DOMAIN self.times \cup DOMAIN other.times |->
            IF k \in DOMAIN other.times THEN other.times[k] ELSE self.times[k]]]

\* WorkflowTiming.merge: self after self.merge(other); other is read only.
timing_merge(self, other) ==
    [self EXCEPT !.times =
        [k \in DOMAIN self.times \cup DOMAIN other.times |->
            IF k \notin DOMAIN other.times THEN self.times[k]
            ELSE IF k \notin DOMAIN self.times THEN other.times[k]
            ELSE self.times[k] \o other.times[k]]]

\* merge_timings: the new timing, and the two arguments after the call.
merge_timings(timing1, timing2) ==
    LET new_timing == WorkflowTiming(NoRoot)
    IN  [merged |-> timing_merge(timing_merge(new_timing, timing1), timing2),
         timing1 |-> timing1,
         timing2 |-> timing2]

(***************************************************************************)
(* The parallel pipeline (sldc/workflow.py).                               *)
(*                                                                         *)
(* An image is given by what each tile gives when it is processed:         *)
(* image.fetch[id] is the outcome of tile.np_image ("ok", or the exception *)
(* raised), image.located[id] the polygons that segmenting and locating    *)
(* the pixels of the tile finds.                                           *)
(***************************************************************************)
RECURSIVE Flatten(_)
Flatten(seqs) == IF seqs = <<>> THEN <<>> ELSE Head(seqs) \o Flatten(Tail(seqs))

\* util.batch_split(n_batches, items): at most n_batches batches of
\* contiguous items, of near-equal sizes, the larger ones first; one item
\* per batch when there are fewer items than batches.
batch_split(n_batches, items) ==
    LET total == Len(items)
        count == Min(n_batches, total)
        size(k) == (total \div count) + (IF k <= total % count THEN 1 ELSE 0)
        start(k) == (k - 1) * (total \div count) + Min(k - 1, total % count)
    IN  [k \in 1..count |-> SubSeq(items, start(k) + 1, start(k) + size(k))]

\* partition_identifiers over range(0, tile_count).
partition_identifiers_from_zero(t, n_batches) ==
    batch_split(n_batches, [id \in 1..tile_count(t) |-> id - 1])

\* TileTopology.partition_identifiers
partition_identifiers(t, n_batches) ==
    batch_split(n_batches, [id \in 1..tile_count(t) |-> id])

\* The batch_size that _batch_segment_locate runs with when it is not passed.
default_batch_size == 1

\* _batch_segment_locate: what the handler of TileExtractionException puts in
\* tiles_polygons for the tile.
no_entry(tile_id) == <<>>

empty_entry(tile_id) == <<[tile |-> tile_id, polygons |-> <<>>]>>

\* Workflow._set_pool
set_pool(p, n) == IF p = None THEN n ELSE p

\* The Parallel objects built so far, after _set_pool ran on pool p.
pools_built(p, made) == IF p = None THEN made + 1 ELSE made

\* The setter of n_jobs without the reset of the pool.
n_jobs_setter_keep_pool(p, n, value) == [pool |-> p, n_jobs |-> value]

\* The setter of Workflow.n_jobs: the fields _pool and _n_jobs after it.
n_jobs_setter(p, n, value) ==
    IF value # n THEN [pool |-> None, n_jobs |-> value]
    ELSE [pool |-> p, n_jobs |-> n]

\* Workflow.__getstate__: the field _pool after it.
getstate_pool(p) == None

\* Workflow.__init__: the test of the segmentation batch size against the
\* policy of the border tiles; TRUE when the workflow is built.
BORDER_TILES_EXTEND == "extend"
BORDER_TILES_KEEP == "keep"

workflow_init(seg_batch_size, border_tiles) ==
    ~(seg_batch_size > 1 /\ border_tiles = BORDER_TILES_KEEP)

\* Workflow._tile_topology, for the policies keep and extend.
workflow_tile_topology(t, border_tiles) ==
    IF border_tiles = BORDER_TILES_EXTEND THEN FixedSizeTileTopology(t) ELSE t

\* An operation on the pool of a workflow, with the fields before it.
PoolOp(op, value, p, n, made) ==
    [op |-> op, value |-> value, before |-> [pool |-> p, n_jobs |-> n, made |-> made]]

\* _batch_segment_locate: one turn of the loop over the groups of batch_size
\* tiles, from the worker state w (start, tiles_polygons, status, and the
\* numbers of images given to segment_batch so far, one per call).  An
\* exception of np_image that is not a TileExtractionException leaves the
\* function.
batch_segment_locate_turn(img, ids, batch_size, w) ==
    LET end == Min(Len(ids), w.start + batch_size)
        batch_tile_ids == SubSeq(ids, w.start + 1, end)
        Failed(id) == img.fetch[id] = "TileExtractionException"
        Kept(id) == img.fetch[id] = "ok"
        failed == Flatten([k \in 1..Len(SelectSeq(batch_tile_ids, Failed)) |->
                            empty_entry(SelectSeq(batch_tile_ids, Failed)[k])])
        kept_tiles == SelectSeq(batch_tile_ids, Kept)
        located == [k \in 1..Len(kept_tiles) |->
                        [tile |-> kept_tiles[k], polygons |-> img.located[kept_tiles[k]]]]
    IN  IF \E k \in 1..Len(batch_tile_ids) :
                ~Failed(batch_tile_ids[k]) /\ ~Kept(batch_tile_ids[k])
        THEN [w EXCEPT !.status = "raised"]
        ELSE [start |-> end,
              tiles_polygons |-> w.tiles_polygons \o failed \o located,
              segmented |-> Append(w.segmented, Len(kept_tiles)),
              status |-> IF end >= Len(ids) THEN "returned" ELSE "running"]

\* The results of a joblib Parallel call: one per task, in the order of
\* submission, whatever the order the workers finished in.
pool_results(results, finished) == results

\* _parallel_segment_locate: is the Parallel call over?
some_returned(workers) ==
    \E b \in 1..Len(workers) : workers[b].status = "returned"

all_returned(workers) ==
    \A b \in 1..Len(workers) : workers[b].status = "returned"

\* The pairs of the batches, in the order the workers finished.
collect_as_finished(workers, finished) ==
    Flatten([k \in 1..Len(finished) |-> workers[finished[k]].tiles_polygons])

\* _parallel_segment_locate, after the Parallel call: the (tile, polygons)
\* pairs of all the batches.
collect_tiles_polygons(workers, finished) ==
    Flatten(pool_results([b \in 1..Len(workers) |-> workers[b].tiles_polygons], finished))

\* The arguments process gives merge: tiles, tile_polygons, no labels.
merge_input(tolerance, collected) ==
    [tolerance |-> tolerance,
     labelled |-> FALSE,
     tiles |-> [k \in 1..Len(collected) |-> collected[k].tile],
     polygons |-> [k \in 1..Len(collected) |-> collected[k].polygons],
     labels |-> <<>>]

\* What merge returns when it is given no labels: the polygons.
merged_polygons(t, input) ==
    LET merged == merge(t, input)
    IN  [c \in 1..Len(merged) |-> merged[c].polygon]

\* SLDCWorkflow._dispatch_classify: the batches of polygons.
dc_split(wf, n, merged) ==
    batch_split(IF wf.parallel_dispatch_classify THEN n ELSE 1, merged)

\* The results of the batches, flattened in the order the workers finished.
dc_flatten_as_finished(results, finished) ==
    LET ordered == [k \in 1..Len(finished) |-> results[finished[k]]]
    IN  [predictions |-> Flatten([b \in 1..Len(ordered) |-> ordered[b].predictions]),
         probabilities |-> Flatten([b \in 1..Len(ordered) |-> ordered[b].probabilities]),
         dispatches |-> Flatten([b \in 1..Len(ordered) |-> ordered[b].dispatches])]

\* SLDCWorkflow._dispatch_classify, after the Parallel call: the flattened
\* predictions, probabilities and dispatch labels.
dc_flatten(results, finished) ==
    LET ordered == pool_results(results, finished)
    IN  [predictions |-> Flatten([b \in 1..Len(ordered) |-> ordered[b].predictions]),
         probabilities |-> Flatten([b \in 1..Len(ordered) |-> ordered[b].probabilities]),
         dispatches |-> Flatten([b \in 1..Len(ordered) |-> ordered[b].dispatches])]

\* WorkflowInformation(polygons, pred, timing, dispatches=..., probas=...)
WorkflowInformation(merged, dc) ==
    [polygons |-> merged, labels |-> dc.predictions,
     proba |-> dc.probabilities, dispatch |-> dc.dispatches]

(***************************************************************************)
(* Idle values: a specification leaves the variables of the other          *)
(* components at these values.                                             *)
(***************************************************************************)
NoTile == [err |-> "none"]
NoCall == [method |-> "none"]
NoInput == [tolerance |-> 0, labelled |-> FALSE, tiles |-> <<>>,
            polygons |-> <<>>, labels |-> <<>>]

IterIdle == it_next = 1 /\ it_tile = NoTile /\ it_covered = {} /\ tt_call = NoCall

MergeIdle ==
    /\ m_in = NoInput /\ m_pc = "idle" /\ m_records = <<>> /\ geom_uf = <<>>
    /\ m_cur = 0 /\ m_unions = {} /\ m_out = <<>>

NoDispatchInput == [rules |-> <<>>, labels |-> <<>>, polygons |-> <<>>]
NoDispatchState == [todo |-> <<>>]
NoDispatchOutput == [predictions |-> <<>>, probabilities |-> <<>>, dispatches |-> <<>>]

DispatchIdle ==
    /\ d_in = NoDispatchInput /\ d_pc = "idle"
    /\ d_st = NoDispatchState /\ d_out = NoDispatchOutput

NoImage == [fetch |-> <<>>, located |-> <<>>]
NoWorkflow == [dist_tolerance |-> 0, rules |-> <<>>, labels |-> <<>>,
               parallel_dispatch_classify |-> FALSE]
NoPoolOp == [op |-> "none"]
NoTopology == [iw |-> 1, ih |-> 1, mw |-> 1, mh |-> 1, ov |-> 0]
NoInformation == [polygons |-> <<>>, labels |-> <<>>, proba |-> <<>>, dispatch |-> <<>>]

WorkflowIdle ==
    /\ image = NoImage /\ workflow = NoWorkflow /\ n_jobs = 1 /\ pool = None
    /\ wf_pc = "Idle" /\ sl_batches = <<>> /\ sl_workers = <<>> /\ sl_finished = <<>>
    /\ tiles_polygons = <<>> /\ wf_polygons = <<>> /\ dc_batches = <<>>
    /\ dc_workers = <<>> /\ dc_finished = <<>> /\ wf_out = NoInformation

PoolIdle == pool_made = 0 /\ pool_op = NoPoolOp

NoTimingCall == [n |-> 0, op |-> "none"]
NoPairs == <<>>
NoMerge == [order |-> "idle"]

TimingIdle ==
    /\ timing = WorkflowTiming(NoRoot) /\ tm_clock = 0 /\ tm_call = NoTimingCall
    /\ tm_pairs = NoPairs /\ tm_merge = NoMerge

(***************************************************************************)
(* WorkflowInformation (sldc/information.py): the polygons of a run with   *)
(* their dispatch labels, classes and probabilities, and the timing.  An   *)
(* object is the record of its attributes; `extra` maps the name of each   *)
(* attribute it carries beside those of the constructor to its list.       *)
(***************************************************************************)
MaxObjects == 1    \* the lists of a WorkflowInformation hold at most MaxObjects items

NoneInformation == [none |-> TRUE]

\* The attributes of the class WorkflowTiming (sldc/timing.py).
WorkflowTiming_attributes ==
    { "__init__", "_full_phase", "_validate_phase", "start", "end", "total", "merge",
      "get_phases_hierarchy", "_get_phases_hierarchy", "get_phase_statistics" }

\* WorkflowInformation.__init__
information_init(polygons, dispatch, classes, probas, tm) ==
    [polygons |-> polygons, dispatch |-> dispatch, classes |-> classes,
     probas |-> probas, timing |-> tm, extra |-> <<>>]

\* The names of the per-object lists an object carries.
information_fields(info) ==
    {"polygons", "dispatch", "classes", "probas"} \cup DOMAIN info.extra

\* WorkflowInformation.merge: self and other after the call, and the
\* exception raised if any.  The four lists of self are extended in place,
\* then WorkflowTiming.merge_timings is looked up on the class.
information_merge(self, other) ==
    IF other = NoneInformation THEN [self |-> self, other |-> other, err |-> "ok"]
    ELSE LET extended == [self EXCEPT !.polygons = @ \o other.polygons,
                                      !.dispatch = @ \o other.dispatch,
                                      !.classes = @ \o other.classes,
                                      !.probas = @ \o other.probas]
         IN  IF "merge_timings" \notin WorkflowTiming_attributes
             THEN [self |-> extended, other |-> other, err |-> "AttributeError"]
             ELSE [self |-> [extended EXCEPT
                               !.timing = merge_timings(self.timing, other.timing).merged],
                   other |-> other, err |-> "ok"]

NoInformationMerge == [order |-> "idle"]
NoTilePolygonsCall == [op |-> "none"]
NoNodes == <<>>
NoUnionFindCall == [op |-> "none"]

LibIdle ==
    /\ wi_merge = NoInformationMerge /\ tp_call = NoTilePolygonsCall
    /\ uf_nodes = NoNodes /\ uf_links = {} /\ uf_call = NoUnionFindCall

(***************************************************************************)
(* SpecTopology: a topology is built for some image and tiling, then the   *)
(* TileTopologyIterator yields its tiles, identifiers 1..tile_count.       *)
(***************************************************************************)
TopoInit ==
    /\ LibIdle
    /\ topo \in { t \in Topologies(MaxImage, MaxTile) : ValidTopology(t) }
    /\ IterIdle
    /\ PoolIdle
    /\ TimingIdle
    /\ MergeIdle
    /\ DispatchIdle
    /\ WorkflowIdle

\* TileTopologyIterator.__iter__: one step of the loop over the identifiers.
IterYield ==
    /\ it_next <= tile_count(topo)
    /\ it_tile' = tile(topo, it_next)
    /\ it_covered' = it_covered \cup TilePixels(tile(topo, it_next))
    /\ it_next' = it_next + 1
    /\ UNCHANGED <<topo, lib_vars, pl_vars, tm_vars, tt_call, merge_vars, disp_vars, wf_vars>>

IterDone == it_next > tile_count(topo)

TopoNext == IterYield

SpecTopology == TopoInit /\ [][TopoNext]_vars

(***************************************************************************)
(* SpecCalls: a topology is built for some image and tiling, then its      *)
(* methods are called with identifiers inside and outside 1..tile_count.   *)
(***************************************************************************)
CallIds(t) == (1 - IdMargin)..(tile_count(t) + IdMargin)

CallTile ==
    /\ \E id \in CallIds(topo) : tt_call' = call_tile(topo, id)
    /\ UNCHANGED <<topo, lib_vars, pl_vars, tm_vars, it_next, it_tile, it_covered, merge_vars, disp_vars, wf_vars>>

CallTileOffset ==
    /\ \E id \in CallIds(topo) : tt_call' = call_tile_offset(topo, id)
    /\ UNCHANGED <<topo, lib_vars, pl_vars, tm_vars, it_next, it_tile, it_covered, merge_vars, disp_vars, wf_vars>>

CallTileNeighbours ==
    /\ \E id \in CallIds(topo) : tt_call' = call_tile_neighbours(topo, id)
    /\ UNCHANGED <<topo, lib_vars, pl_vars, tm_vars, it_next, it_tile, it_covered, merge_vars, disp_vars, wf_vars>>

CallTileCount ==
    /\ tt_call' = call_tile_count(topo)
    /\ UNCHANGED <<topo, lib_vars, pl_vars, tm_vars, it_next, it_tile, it_covered, merge_vars, disp_vars, wf_vars>>

CallPartitionIdentifiers ==
    /\ \E n \in 1..MaxParts :
          tt_call' = Call("partition_identifiers", n, "ok", partition_identifiers(topo, n))
    /\ UNCHANGED <<topo, lib_vars, pl_vars, tm_vars, it_next, it_tile, it_covered, merge_vars, disp_vars, wf_vars>>

CallsNext ==
    \/ CallTile
    \/ CallTileOffset
    \/ CallTileNeighbours
    \/ CallTileCount
    \/ CallPartitionIdentifiers

SpecCalls == TopoInit /\ [][CallsNext]_vars

(***************************************************************************)
(* SpecBorders: a regular topology is built, a SkipBordersTileTopology and *)
(* a FixedSizeTileTopology are built from it, and their methods are called *)
(* with identifiers inside and outside the regular topology's.             *)
(***************************************************************************)
SkipTile ==
    /\ LET st == SkipBordersTileTopology(topo)
       IN  \E id \in CallIds(topo) : tt_call' = call_skip_tile(st, id)
    /\ UNCHANGED <<topo, lib_vars, pl_vars, tm_vars, it_next, it_tile, it_covered, merge_vars, disp_vars, wf_vars>>

SkipTileNeighbours ==
    /\ LET st == SkipBordersTileTopology(topo)
       IN  \E id \in CallIds(topo) : tt_call' = skip_tile_neighbours(st, id)
    /\ UNCHANGED <<topo, lib_vars, pl_vars, tm_vars, it_next, it_tile, it_covered, merge_vars, disp_vars, wf_vars>>

FixedTile ==
    /\ \E id \in CallIds(topo) : tt_call' = call_fixed_tile(topo, id)
    /\ UNCHANGED <<topo, lib_vars, pl_vars, tm_vars, it_next, it_tile, it_covered, merge_vars, disp_vars, wf_vars>>

BordersNext == SkipTile \/ SkipTileNeighbours \/ FixedTile

SpecBorders == TopoInit /\ [][BordersNext]_vars

(***************************************************************************)
(* SpecMerge: SemanticMerger(tolerance).merge(tiles, polygons, topology,   *)
(* labels) on the polygons found in the tiles of a topology.               *)
(*                                                                         *)
(* The inputs: a topology of a few tiles, and in each tile some polygons,  *)
(* each a block of cw x ch pixels of the tile, listed row by row.          *)
(***************************************************************************)
MergeCases ==
    { [topo |-> [iw |-> 6, ih |-> 1, mw |-> 3, mh |-> 1, ov |-> 0], cw |-> 1, ch |-> 1],
      [topo |-> [iw |-> 2, ih |-> 2, mw |-> 1, mh |-> 1, ov |-> 0], cw |-> 1, ch |-> 1],
      [topo |-> [iw |-> 3, ih |-> 2, mw |-> 2, mh |-> 2, ov |-> 1], cw |-> 1, ch |-> 2] }

\* The blocks of cw x ch pixels that lie in a tile.
Placements(t, cw, ch) ==
    UNION { LET tl == topology_tile(t, id)
            IN  { [tile |-> id, polygon |-> Rect(x, y, x + cw, y + ch)] :
                    x \in tl.offset.x..(tl.offset.x + tl.width - cw),
                    y \in tl.offset.y..(tl.offset.y + tl.height - ch) }
          : id \in 1..tile_count(t) }

\* The placements of a set, row by row then left to right.
RECURSIVE SortedPlacements(_)
SortedPlacements(S) ==
    IF S = {} THEN <<>>
    ELSE LET first == CHOOSE p \in S : \A q \in S :
                         \/ p.polygon.y0 < q.polygon.y0
                         \/ p.polygon.y0 = q.polygon.y0 /\ p.polygon.x0 <= q.polygon.x0
         IN  <<first>> \o SortedPlacements(S \ {first})

\* The input of merge for the placements S labelled by lab.
MergeInput(t, S, lab, tolerance, labelled) ==
    LET InTile(id) == SortedPlacements({ p \in S : p.tile = id })
    IN  [tolerance |-> tolerance,
         labelled |-> labelled,
         tiles |-> [id \in 1..tile_count(t) |-> id],
         polygons |-> [id \in 1..tile_count(t) |->
                         [j \in 1..Len(InTile(id)) |-> InTile(id)[j].polygon]],
         labels |-> [id \in 1..tile_count(t) |->
                         [j \in 1..Len(InTile(id)) |-> lab[InTile(id)[j]]]]]

MergeInputs(t, cw, ch) ==
    UNION { UNION { { MergeInput(t, S, lab, tol, labelled) :
                        tol \in 0..MaxTol,
                        labelled \in { TRUE } \cup
                                     { b \in { FALSE } : \A p \in S : lab[p] = 1 } }
                  : lab \in [S -> 1..NumLabels] }
          : S \in { X \in SUBSET Placements(t, cw, ch) : Cardinality(X) <= MaxPolys } }

MergeInit ==
    /\ LibIdle
    /\ \E c \in MergeCases :
          /\ topo = c.topo
          /\ m_in \in MergeInputs(c.topo, c.cw, c.ch)
    /\ m_pc = "idle" /\ m_records = <<>> /\ geom_uf = <<>>
    /\ m_cur = 0 /\ m_unions = {} /\ m_out = <<>>
    /\ IterIdle
    /\ PoolIdle
    /\ TimingIdle
    /\ DispatchIdle
    /\ WorkflowIdle

\* merge, up to the loops: _build_dicts, the early return when there is no
\* polygon, and the creation of geom_uf.
MergeBuild ==
    /\ m_pc = "idle"
    /\ LET records == build_records(m_in, 1, 1)
       IN  /\ m_records' = records
           /\ IF Len(records) <= 0
              THEN /\ m_pc' = "done"
                   /\ UNCHANGED <<geom_uf, m_cur>>
              ELSE /\ geom_uf' = uf_init(1..Len(records))
                   /\ m_cur' = next_cursor(topo, m_in, 0)
                   /\ m_pc' = "register"
    /\ UNCHANGED <<topo, lib_vars, pl_vars, tm_vars, iter_vars, disp_vars, wf_vars, m_in, m_unions, m_out>>

\* merge: one turn of the loops, for a tile and a side that has a neighbour.
MergeRegister ==
    /\ m_pc = "register"
    /\ m_cur < 4 * Len(m_in.tiles)
    /\ LET r == merge_step(topo, m_in, m_records, geom_uf, m_unions, m_cur)
       IN  /\ geom_uf' = r.nodes
           /\ m_unions' = r.unions
    /\ m_cur' = next_cursor(topo, m_in, m_cur + 1)
    /\ UNCHANGED <<topo, lib_vars, pl_vars, tm_vars, iter_vars, disp_vars, wf_vars, m_in, m_pc, m_records, m_out>>

\* merge: after the loops, _do_merge and the return.
MergeDo ==
    /\ m_pc = "register"
    /\ m_cur >= 4 * Len(m_in.tiles)
    /\ m_out' = do_merge(geom_uf, m_records)
    /\ m_pc' = "done"
    /\ UNCHANGED <<topo, lib_vars, pl_vars, tm_vars, iter_vars, disp_vars, wf_vars, m_in, m_records, geom_uf, m_cur, m_unions>>

MergeNext == MergeBuild \/ MergeRegister \/ MergeDo

SpecMerge == MergeInit /\ [][MergeNext]_vars

(***************************************************************************)
(* SpecMergeFixed: SemanticMerger.merge with a FixedSizeTileTopology, the  *)
(* topology of a workflow whose border tiles are extended.  The last tile  *)
(* of a row is moved left to have the full width, and overlaps its         *)
(* neighbour by more than the overlap of the topology.                     *)
(***************************************************************************)
MergeFixedCases ==
    { [topo |-> [iw |-> 6, ih |-> 1, mw |-> 5, mh |-> 1, ov |-> 0], cw |-> 1, ch |-> 1],
      [topo |-> [iw |-> 4, ih |-> 1, mw |-> 3, mh |-> 1, ov |-> 0], cw |-> 1, ch |-> 1] }

\* The inputs of at most two polygons.
MergeFixedInputs(t, cw, ch) ==
    UNION { { MergeInput(t, S, lab, tol, TRUE) :
                tol \in 0..MaxTol, lab \in [S -> 1..NumLabels] }
          : S \in { X \in SUBSET Placements(t, cw, ch) : Cardinality(X) <= 2 } }

MergeFixedInit ==
    /\ LibIdle
    /\ \E c \in MergeFixedCases :
          /\ topo = FixedSizeTileTopology(c.topo)
          /\ m_in \in MergeFixedInputs(topo, c.cw, c.ch)
    /\ m_pc = "idle" /\ m_records = <<>> /\ geom_uf = <<>>
    /\ m_cur = 0 /\ m_unions = {} /\ m_out = <<>>
    /\ IterIdle /\ PoolIdle /\ TimingIdle /\ DispatchIdle /\ WorkflowIdle

SpecMergeFixed == MergeFixedInit /\ [][MergeNext]_vars

(***************************************************************************)
(* SpecDispatch: DispatcherClassifier(RuleBasedDispatcher(rules, labels),  *)
(* classifiers).dispatch_classify_batch(image, polygons), with as many     *)
(* classifiers as rules.                                                   *)
(***************************************************************************)
SeqsUpTo(S, n) == UNION { [1..k -> S] : k \in 0..n }

\* A small polygon and a large one.
SamplePolygons == { {Rect(0, 0, 1, 1)}, {Rect(0, 0, 1, 1), Rect(1, 0, 2, 1)} }

DispatchInputs ==
    { [rules |-> rules, labels |-> labels, polygons |-> polygons] :
        rules \in SeqsUpTo(SUBSET PolyKinds, MaxRules),
        labels \in SeqsUpTo(LabelNames, MaxRules),
        polygons \in SeqsUpTo(SamplePolygons, MaxBatch) }

DispatchInit ==
    /\ LibIdle
    /\ d_in \in { i \in DispatchInputs : Len(i.rules) = Len(i.labels) }
    /\ d_pc = "idle" /\ d_st = NoDispatchState /\ d_out = NoDispatchOutput
    /\ topo \in { c.topo : c \in MergeCases }
    /\ IterIdle
    /\ PoolIdle
    /\ TimingIdle
    /\ MergeIdle
    /\ WorkflowIdle

\* dispatch_classify_batch up to the loop: dispatch_map, np.unique and the
\* result arrays.
DCDispatch ==
    /\ d_pc = "idle"
    /\ d_st' = dc_begin(d_in.rules, d_in.labels, d_in.polygons)
    /\ d_pc' = "classify"
    /\ UNCHANGED <<topo, lib_vars, pl_vars, tm_vars, iter_vars, merge_vars, wf_vars, d_in, d_out>>

\* One turn of the loop over the unique dispatch indexes.
DCClassify ==
    /\ d_pc = "classify"
    /\ d_st.todo # <<>>
    /\ d_st' = dc_turn(d_in.rules, d_in.polygons, d_st)
    /\ UNCHANGED <<topo, lib_vars, pl_vars, tm_vars, iter_vars, merge_vars, wf_vars, d_in, d_pc, d_out>>

\* The return of dispatch_classify_batch.
DCReturn ==
    /\ d_pc = "classify"
    /\ d_st.todo = <<>>
    /\ d_out' = dc_return(d_st)
    /\ d_pc' = "done"
    /\ UNCHANGED <<topo, lib_vars, pl_vars, tm_vars, iter_vars, merge_vars, wf_vars, d_in, d_st>>

DispatchNext == DCDispatch \/ DCClassify \/ DCReturn

SpecDispatch == DispatchInit /\ [][DispatchNext]_vars

(***************************************************************************)
(* Spec: SLDCWorkflow.process(image), the segment/locate and the           *)
(* dispatch/classify batches running on parallel workers that take their   *)
(* turns in any order.                                                     *)
(***************************************************************************)
\* An image of 6 x 1 pixels in two tiles, one of 3 x 1 pixels in three tiles.
WorkflowCases ==
    { [topo |-> [iw |-> 6, ih |-> 1, mw |-> 3, mh |-> 1, ov |-> 0], dist_tolerance |-> 1],
      [topo |-> [iw |-> 3, ih |-> 1, mw |-> 1, mh |-> 1, ov |-> 0], dist_tolerance |-> 1] }

\* What np_image does on a tile: it returns, or raises TileExtractionException
\* or another exception.
FetchOutcomes == {"ok", "TileExtractionException", "AttributeError"}

\* The images of a topology: blocks of one pixel, each found in its tile.
Images(t) ==
    { [fetch |-> fetch,
       located |-> [id \in 1..tile_count(t) |->
                        LET InTile == SortedPlacements({ p \in S : p.tile = id })
                        IN  [j \in 1..Len(InTile) |-> InTile[j].polygon]]] :
        fetch \in [1..tile_count(t) -> FetchOutcomes],
        S \in { X \in SUBSET Placements(t, 1, 1) : Cardinality(X) <= MaxFound } }

\* A dispatcher that leaves the small polygons unmatched, and one with a
\* second rule that matches every polygon.
Dispatchers ==
    { [rules |-> <<{"large"}>>, labels |-> <<"a">>],
      [rules |-> <<{"large"}, {"small", "large"}>>, labels |-> <<"a", "b">>] }

Init ==
    /\ LibIdle
    /\ \E c \in WorkflowCases :
        /\ topo = c.topo
        /\ image \in Images(c.topo)
        /\ workflow \in { [dist_tolerance |-> c.dist_tolerance,
                           rules |-> d.rules, labels |-> d.labels,
                           parallel_dispatch_classify |-> par] :
                            d \in Dispatchers, par \in BOOLEAN }
    /\ n_jobs \in 1..MaxJobs
    /\ pool = None
    /\ wf_pc = "Idle" /\ sl_batches = <<>> /\ sl_workers = <<>> /\ sl_finished = <<>>
    /\ tiles_polygons = <<>> /\ wf_polygons = <<>> /\ dc_batches = <<>>
    /\ dc_workers = <<>> /\ dc_finished = <<>> /\ wf_out = NoInformation
    /\ IterIdle
    /\ PoolIdle
    /\ TimingIdle
    /\ MergeIdle
    /\ DispatchIdle

\* process up to the Parallel call of _parallel_segment_locate: the pool is
\* created if there is none, the identifiers are partitioned and one
\* _batch_segment_locate is submitted per batch.
SegmentLocateStart ==
    /\ wf_pc = "Idle"
    /\ pool' = set_pool(pool, n_jobs)
    /\ pool_made' = pools_built(pool, pool_made)
    /\ pool_op' = PoolOp("process", None, pool, n_jobs, pool_made)
    /\ sl_batches' = partition_identifiers(topo, pool')
    /\ sl_workers' = [b \in 1..Len(sl_batches') |->
                        [start |-> 0, tiles_polygons |-> <<>>, segmented |-> <<>>,
                         status |-> "running"]]
    /\ wf_pc' = "SegmentLocate"
    /\ UNCHANGED <<topo, lib_vars, tm_vars, iter_vars, merge_vars, disp_vars, image, workflow, n_jobs,
                   sl_finished, tiles_polygons, wf_polygons, dc_batches, dc_workers,
                   dc_finished, wf_out>>

\* One turn of the loop of _batch_segment_locate in the worker of batch b.
\* An exception that leaves the worker leaves the Parallel call and process.
SegmentLocateTurn(b) ==
    /\ wf_pc = "SegmentLocate"
    /\ sl_workers[b].status = "running"
    /\ LET w == batch_segment_locate_turn(image, sl_batches[b], default_batch_size,
                                          sl_workers[b])
       IN  /\ sl_workers' = [sl_workers EXCEPT ![b] = w]
           /\ sl_finished' = IF w.status = "returned"
                             THEN Append(sl_finished, b) ELSE sl_finished
           /\ wf_pc' = IF w.status = "raised" THEN "Aborted" ELSE wf_pc
    /\ UNCHANGED <<topo, lib_vars, pl_vars, tm_vars, iter_vars, merge_vars, disp_vars, image, workflow, n_jobs,
                   pool, sl_batches, tiles_polygons, wf_polygons, dc_batches,
                   dc_workers, dc_finished, wf_out>>

\* The end of _parallel_segment_locate: the Parallel call is over, the
\* results of the batches are put together.
SegmentLocateCollect ==
    /\ wf_pc = "SegmentLocate"
    /\ all_returned(sl_workers)
    /\ tiles_polygons' = collect_tiles_polygons(sl_workers, sl_finished)
    /\ wf_pc' = "Merge"
    /\ UNCHANGED <<topo, lib_vars, pl_vars, tm_vars, iter_vars, merge_vars, disp_vars, image, workflow, n_jobs,
                   pool, sl_batches, sl_workers, sl_finished, wf_polygons, dc_batches,
                   dc_workers, dc_finished, wf_out>>

\* process: self._merger.merge(tiles, tile_polygons, tile_topology).
Merge ==
    /\ wf_pc = "Merge"
    /\ wf_polygons' = merged_polygons(topo, merge_input(workflow.dist_tolerance,
                                                        tiles_polygons))
    /\ wf_pc' = "DispatchClassify"
    /\ UNCHANGED <<topo, lib_vars, pl_vars, tm_vars, iter_vars, merge_vars, disp_vars, image, workflow, n_jobs,
                   pool, sl_batches, sl_workers, sl_finished, tiles_polygons,
                   dc_batches, dc_workers, dc_finished, wf_out>>

\* _dispatch_classify up to the Parallel call; without polygons it returns
\* empty arrays and process returns.
DispatchClassifyStart ==
    /\ wf_pc = "DispatchClassify"
    /\ dc_batches = <<>>
    /\ IF Len(wf_polygons) = 0
       THEN /\ wf_out' = WorkflowInformation(wf_polygons, NoDispatchOutput)
            /\ wf_pc' = "Done"
            /\ UNCHANGED <<dc_batches, dc_workers>>
       ELSE /\ dc_batches' = dc_split(workflow, n_jobs, wf_polygons)
            /\ dc_workers' = [b \in 1..Len(dc_batches') |->
                                [status |-> "running", result |-> NoDispatchOutput]]
            /\ UNCHANGED <<wf_out, wf_pc>>
    /\ UNCHANGED <<topo, lib_vars, pl_vars, tm_vars, iter_vars, merge_vars, disp_vars, image, workflow, n_jobs,
                   pool, sl_batches, sl_workers, sl_finished, tiles_polygons,
                   wf_polygons, dc_finished>>

\* _dc_with_timing in the worker of batch b.
DispatchClassifyBatch(b) ==
    /\ wf_pc = "DispatchClassify"
    /\ dc_workers[b].status = "running"
    /\ dc_workers' = [dc_workers EXCEPT ![b] =
                        [status |-> "returned",
                         result |-> dispatch_classify_batch(workflow.rules, workflow.labels,
                                                            dc_batches[b])]]
    /\ dc_finished' = Append(dc_finished, b)
    /\ UNCHANGED <<topo, lib_vars, pl_vars, tm_vars, iter_vars, merge_vars, disp_vars, image, workflow, n_jobs,
                   pool, wf_pc, sl_batches, sl_workers, sl_finished, tiles_polygons,
                   wf_polygons, dc_batches, wf_out>>

\* The end of _dispatch_classify and of process: the Parallel call is over,
\* the results are flattened and the WorkflowInformation is returned.
DispatchClassifyCollect ==
    /\ wf_pc = "DispatchClassify"
    /\ dc_batches # <<>>
    /\ all_returned(dc_workers)
    /\ wf_out' = WorkflowInformation(wf_polygons,
                    dc_flatten([b \in 1..Len(dc_workers) |-> dc_workers[b].result],
                               dc_finished))
    /\ wf_pc' = "Done"
    /\ UNCHANGED <<topo, lib_vars, pl_vars, tm_vars, iter_vars, merge_vars, disp_vars, image, workflow, n_jobs,
                   pool, sl_batches, sl_workers, sl_finished, tiles_polygons,
                   wf_polygons, dc_batches, dc_workers, dc_finished>>

Next ==
    \/ SegmentLocateStart
    \/ \E b \in 1..Len(sl_workers) : SegmentLocateTurn(b)
    \/ SegmentLocateCollect
    \/ Merge
    \/ DispatchClassifyStart
    \/ \E b \in 1..Len(dc_workers) : DispatchClassifyBatch(b)
    \/ DispatchClassifyCollect

Spec == Init /\ [][Next]_vars

(***************************************************************************)
(* SpecSegmentBatch: the segment/locate phase of process, for workflows    *)
(* built with a segmentation batch size and a policy for the border tiles. *)
(***************************************************************************)
SegmentBatchInit ==
    /\ LibIdle
    /\ \E border_tiles \in {BORDER_TILES_KEEP, BORDER_TILES_EXTEND},
          seg_batch_size \in 1..MaxBatch :
          /\ workflow_init(seg_batch_size, border_tiles)
          /\ topo = workflow_tile_topology([iw |-> 3, ih |-> 1, mw |-> 1, mh |-> 1, ov |-> 0],
                                           border_tiles)
          /\ workflow = [dist_tolerance |-> 1, rules |-> <<{"large"}>>, labels |-> <<"a">>,
                         parallel_dispatch_classify |-> FALSE,
                         seg_batch_size |-> seg_batch_size, border_tiles |-> border_tiles]
    /\ image \in Images(topo)
    /\ n_jobs \in 1..2
    /\ pool = None
    /\ wf_pc = "Idle" /\ sl_batches = <<>> /\ sl_workers = <<>> /\ sl_finished = <<>>
    /\ tiles_polygons = <<>> /\ wf_polygons = <<>> /\ dc_batches = <<>>
    /\ dc_workers = <<>> /\ dc_finished = <<>> /\ wf_out = NoInformation
    /\ IterIdle /\ PoolIdle /\ TimingIdle /\ MergeIdle /\ DispatchIdle

SegmentBatchNext ==
    \/ SegmentLocateStart
    \/ \E b \in 1..Len(sl_workers) : SegmentLocateTurn(b)
    \/ SegmentLocateCollect

SpecSegmentBatch == SegmentBatchInit /\ [][SegmentBatchNext]_vars

(***************************************************************************)
(* SpecPool: a workflow is built with some n_jobs; then process reads its  *)
(* pool, n_jobs is assigned and the workflow is serialized, in any order.  *)
(***************************************************************************)
PoolInit ==
    /\ LibIdle
    /\ topo = NoTopology
    /\ image = NoImage /\ workflow = NoWorkflow
    /\ n_jobs \in 1..MaxJobs
    /\ pool = None
    /\ wf_pc = "Idle" /\ sl_batches = <<>> /\ sl_workers = <<>> /\ sl_finished = <<>>
    /\ tiles_polygons = <<>> /\ wf_polygons = <<>> /\ dc_batches = <<>>
    /\ dc_workers = <<>> /\ dc_finished = <<>> /\ wf_out = NoInformation
    /\ IterIdle
    /\ PoolIdle
    /\ TimingIdle
    /\ MergeIdle
    /\ DispatchIdle

\* The property pool, as a call of process reads it.
ProcessReadsPool ==
    /\ pool # None \/ pool_made < MaxPools
    /\ pool' = set_pool(pool, n_jobs)
    /\ pool_made' = pools_built(pool, pool_made)
    /\ pool_op' = PoolOp("process", None, pool, n_jobs, pool_made)
    /\ UNCHANGED <<topo, lib_vars, tm_vars, iter_vars, merge_vars, disp_vars, image, workflow, n_jobs,
                   wf_pc, sl_batches, sl_workers, sl_finished, tiles_polygons,
                   wf_polygons, dc_batches, dc_workers, dc_finished, wf_out>>

\* workflow.n_jobs = value
AssignNJobs ==
    /\ \E value \in 1..MaxJobs :
          /\ pool' = n_jobs_setter(pool, n_jobs, value).pool
          /\ n_jobs' = n_jobs_setter(pool, n_jobs, value).n_jobs
          /\ pool_op' = PoolOp("n_jobs", value, pool, n_jobs, pool_made)
    /\ UNCHANGED <<topo, lib_vars, tm_vars, iter_vars, merge_vars, disp_vars, image, workflow,
                   pool_made, wf_pc, sl_batches, sl_workers, sl_finished, tiles_polygons,
                   wf_polygons, dc_batches, dc_workers, dc_finished, wf_out>>

\* pickle.dumps(workflow)
GetState ==
    /\ pool' = getstate_pool(pool)
    /\ pool_op' = PoolOp("getstate", None, pool, n_jobs, pool_made)
    /\ UNCHANGED <<topo, lib_vars, tm_vars, iter_vars, merge_vars, disp_vars, image, workflow, n_jobs,
                   pool_made, wf_pc, sl_batches, sl_workers, sl_finished, tiles_polygons,
                   wf_polygons, dc_batches, dc_workers, dc_finished, wf_out>>

PoolNext == ProcessReadsPool \/ AssignNJobs \/ GetState

SpecPool == PoolInit /\ [][PoolNext]_vars

(***************************************************************************)
(* SpecTiming: a WorkflowTiming is built, with or without a root, and      *)
(* start and end are called on several phases in any order while the timer *)
(* runs.  timeit.default_timer is a monotonic clock: a reading is never    *)
(* below an earlier one.                                                   *)
(***************************************************************************)
ValidPhases == { <<"phase1">>, <<"phase2">>, <<"phase1", "phase3">> }

\* The phases passed to start and end: the valid ones and ".root".
Phases == ValidPhases \cup { <<"", "root">> }

Roots == { NoRoot, <<"root">> }

TimingCall(op, phase, err) ==
    [n |-> tm_call.n + 1, op |-> op, phase |-> phase, err |-> err, before |-> timing]

TimingInit ==
    /\ LibIdle
    /\ topo = NoTopology
    /\ timing \in { WorkflowTiming(root) : root \in Roots }
    /\ tm_clock = 0
    /\ tm_call = NoTimingCall
    /\ tm_pairs = [phase \in ValidPhases |-> [open |-> FALSE, pairs |-> 0]]
    /\ tm_merge = NoMerge
    /\ it_next = 1 /\ it_tile = NoTile /\ it_covered = {} /\ tt_call = NoCall
    /\ PoolIdle
    /\ MergeIdle
    /\ DispatchIdle
    /\ WorkflowIdle

\* timing.start(phase)
TimingStart ==
    /\ tm_call.n < MaxCalls
    /\ \E phase \in Phases, now \in tm_clock..MaxClock :
          LET r == timing_start(timing, phase, now)
          IN  /\ timing' = r.timing
              /\ tm_clock' = now
              /\ tm_call' = TimingCall("start", phase, r.err)
              /\ tm_pairs' = IF phase \in ValidPhases
                             THEN [tm_pairs EXCEPT ![phase].open = TRUE]
                             ELSE tm_pairs
    /\ UNCHANGED <<topo, lib_vars, pl_vars, iter_vars, merge_vars, disp_vars, wf_vars, tm_merge>>

\* timing.end(phase)
TimingEnd ==
    /\ tm_call.n < MaxCalls
    /\ \E phase \in Phases, now \in tm_clock..MaxClock :
          LET r == timing_end(timing, phase, now)
          IN  /\ timing' = r.timing
              /\ tm_clock' = now
              /\ tm_call' = TimingCall("end", phase, r.err)
              /\ tm_pairs' = IF phase \in ValidPhases /\ tm_pairs[phase].open
                             THEN [tm_pairs EXCEPT ![phase] =
                                      [open |-> FALSE, pairs |-> @.pairs + 1]]
                             ELSE tm_pairs
    /\ UNCHANGED <<topo, lib_vars, pl_vars, iter_vars, merge_vars, disp_vars, wf_vars, tm_merge>>

\* timing.total(phase)
TimingTotal ==
    /\ tm_call.n < MaxCalls
    /\ \E phase \in Phases :
          LET r == timing_total(timing, phase)
          IN  tm_call' = TimingCall("total", phase, r.err)
    /\ UNCHANGED <<topo, lib_vars, pl_vars, iter_vars, merge_vars, disp_vars, wf_vars,
                   timing, tm_clock, tm_pairs, tm_merge>>

\* timing.get_phase_statistics(phase)
TimingStatistics ==
    /\ tm_call.n < MaxCalls
    /\ \E phase \in Phases :
          LET r == timing_get_phase_statistics(timing, phase)
          IN  tm_call' = TimingCall("get_phase_statistics", phase, r.err)
    /\ UNCHANGED <<topo, lib_vars, pl_vars, iter_vars, merge_vars, disp_vars, wf_vars,
                   timing, tm_clock, tm_pairs, tm_merge>>

TimingNext == TimingStart \/ TimingEnd \/ TimingTotal \/ TimingStatistics

SpecTiming == TimingInit /\ [][TimingNext]_vars

(***************************************************************************)
(* SpecMergeTimings: merge_timings is called on two timings, in one order  *)
(* or the other.                                                           *)
(***************************************************************************)
MergePhases == { <<"root">>, <<"root1", "adj">> }

\* The sequences of at most n durations.
DurationSeqs(n) == UNION { [1..k -> 0..MaxClock] : k \in 0..n }

\* The timings that hold at most MaxTimes durations for each phase.
MergeTimingInputs ==
    { [root |-> NoRoot, starts |-> <<>>,
       times |-> [k \in { ph \in MergePhases : Len(f[ph]) > 0 } |-> f[k]]] :
         f \in [MergePhases -> DurationSeqs(MaxTimes)] }

MergeTimingsInit ==
    /\ LibIdle
    /\ topo = NoTopology
    /\ timing = WorkflowTiming(NoRoot) /\ tm_clock = 0 /\ tm_call = NoTimingCall
    /\ tm_pairs = NoPairs
    /\ \E t1, t2 \in MergeTimingInputs :
          tm_merge = [order |-> "none", in1 |-> t1, in2 |-> t2,
                      timing1 |-> t1, timing2 |-> t2, merged |-> WorkflowTiming(NoRoot)]
    /\ it_next = 1 /\ it_tile = NoTile /\ it_covered = {} /\ tt_call = NoCall
    /\ PoolIdle
    /\ MergeIdle
    /\ DispatchIdle
    /\ WorkflowIdle

\* merged = merge_timings(timing1, timing2)
MergeTimings ==
    /\ tm_merge.order = "none"
    /\ LET r == merge_timings(tm_merge.timing1, tm_merge.timing2)
       IN  tm_merge' = [tm_merge EXCEPT !.order = "12", !.merged = r.merged,
                                        !.timing1 = r.timing1, !.timing2 = r.timing2]
    /\ UNCHANGED <<topo, lib_vars, pl_vars, iter_vars, merge_vars, disp_vars, wf_vars,
                   timing, tm_clock, tm_call, tm_pairs>>

\* merged = merge_timings(timing2, timing1)
MergeTimingsSwapped ==
    /\ tm_merge.order = "none"
    /\ LET r == merge_timings(tm_merge.timing2, tm_merge.timing1)
       IN  tm_merge' = [tm_merge EXCEPT !.order = "21", !.merged = r.merged,
                                        !.timing1 = r.timing2, !.timing2 = r.timing1]
    /\ UNCHANGED <<topo, lib_vars, pl_vars, iter_vars, merge_vars, disp_vars, wf_vars,
                   timing, tm_clock, tm_call, tm_pairs>>

\* timing1.merge(timing1): self and other are one object, each phase is
\* visited once and its array replaced by the concatenation with itself.
MergeSelf ==
    /\ tm_merge.order = "none"
    /\ tm_merge' = [tm_merge EXCEPT !.order = "self",
                       !.timing1 = timing_merge(tm_merge.timing1, tm_merge.timing1)]
    /\ UNCHANGED <<topo, lib_vars, pl_vars, iter_vars, merge_vars, disp_vars, wf_vars,
                   timing, tm_clock, tm_call, tm_pairs>>

MergeTimingsNext == MergeTimings \/ MergeTimingsSwapped \/ MergeSelf

SpecMergeTimings == MergeTimingsInit /\ [][MergeTimingsNext]_vars

(***************************************************************************)
(* SpecReportTiming: report_timing is called on a timing that holds        *)
(* durations for some phases, with the root of SLDCWorkflow or without.    *)
(***************************************************************************)
TIMING_ROOT == <<"workflow", "sldc">>

ReportPhases == { <<"detect">>, <<"detect", "load">>, <<"merge">> }

\* The timings that hold at most MaxTimes durations for each phase.
ReportTimings ==
    { [root |-> root, starts |-> <<>>,
       times |-> [k \in { full_phase(root, ph) : ph \in { q \in ReportPhases : Len(f[q]) > 0 } }
                    |-> f[CHOOSE ph \in ReportPhases : full_phase(root, ph) = k]]] :
         root \in {NoRoot, TIMING_ROOT}, f \in [ReportPhases -> DurationSeqs(MaxTimes)] }

ReportTimingInit ==
    /\ LibIdle
    /\ topo = NoTopology
    /\ timing \in ReportTimings
    /\ tm_clock = 0 /\ tm_call = NoTimingCall /\ tm_pairs = NoPairs /\ tm_merge = NoMerge
    /\ IterIdle /\ PoolIdle /\ MergeIdle /\ DispatchIdle /\ WorkflowIdle

\* report_timing(timing, logger)
ReportTiming ==
    /\ tm_call.op = "none"
    /\ LET r == report_timing(timing)
       IN  tm_call' = [n |-> 1, op |-> "report_timing", err |-> r.err,
                       reported |-> r.reported]
    /\ UNCHANGED <<topo, lib_vars, pl_vars, iter_vars, merge_vars, disp_vars, wf_vars,
                   timing, tm_clock, tm_pairs, tm_merge>>

ReportTimingNext == ReportTiming

SpecReportTiming == ReportTimingInit /\ [][ReportTimingNext]_vars

(***************************************************************************)
(* SpecInformation: two WorkflowInformation objects are built, each may be *)
(* given one more per-object list, and the first merges the second.        *)
(***************************************************************************)
ExtraFields == { "others", "oo" }

InformationObjects ==
    { [information_init(polygons, [i \in 1..Len(polygons) |-> 1], polygons,
                        [i \in 1..Len(polygons) |-> 1], WorkflowTiming(NoRoot))
          EXCEPT !.extra = extra] :
        polygons \in UNION { [1..n -> 1..2] : n \in 0..MaxObjects },
        extra \in { <<>> } \cup { [f \in {name} |-> <<>>] : name \in ExtraFields } }

InformationInit ==
    /\ topo = NoTopology
    /\ IterIdle /\ PoolIdle /\ TimingIdle /\ MergeIdle /\ DispatchIdle /\ WorkflowIdle
    /\ tp_call = NoTilePolygonsCall
    /\ uf_nodes = NoNodes /\ uf_links = {} /\ uf_call = NoUnionFindCall
    /\ \E first \in InformationObjects, second \in InformationObjects \cup {NoneInformation} :
          wi_merge = [order |-> "none", self0 |-> first, other0 |-> second,
                      self |-> first, other |-> second, err |-> "none"]

\* first.merge(second)
InformationMerge ==
    /\ wi_merge.order = "none"
    /\ LET r == information_merge(wi_merge.self, wi_merge.other)
       IN  wi_merge' = [wi_merge EXCEPT !.order = "merged", !.self = r.self,
                                        !.other = r.other, !.err = r.err]
    /\ UNCHANGED <<topo, iter_vars, merge_vars, disp_vars, wf_vars, pl_vars, tm_vars,
                   tp_call, uf_nodes, uf_links, uf_call>>

InformationNext == InformationMerge

SpecInformation == InformationInit /\ [][InformationNext]_vars

(***************************************************************************)
(* SpecTilePolygons: a TilePolygons is built for a tile of a topology and  *)
(* some polygons of that tile, with a filter distance or with None, and    *)
(* its polygons are asked, for one side or all.                            *)
(***************************************************************************)
TilePolygonsInit ==
    /\ LibIdle
    /\ topo \in { c.topo : c \in MergeCases }
    /\ IterIdle /\ PoolIdle /\ TimingIdle /\ MergeIdle /\ DispatchIdle /\ WorkflowIdle

\* The polygons of tile `tile_id` among the placements S, as polygons_dict.
TilePolygonsDict(S, tile_id) ==
    LET in_tile == SortedPlacements({ q \in S : q.tile = tile_id })
    IN  [i \in 1..Len(in_tile) |-> in_tile[i].polygon]

TilePolygonsCall(op, tile_id, polygons_dict, given, filter_dist, side, r) ==
    [op |-> op, tile_id |-> tile_id, polygons_dict |-> polygons_dict, given |-> given,
     filter_dist |-> filter_dist, side |-> side, err |-> r.err, value |-> r.value]

\* TilePolygons(tile_id, topology, polygons_dict, filter_dist).polygons_by_side(side)
TilePolygonsBySide ==
    /\ \E c \in { mc \in MergeCases : mc.topo = topo },
          tile_id \in 1..tile_count(topo),
          given \in BOOLEAN, filter_dist \in 0..(MaxTol + topo.ov), side \in TOP..RIGHT :
        \E S \in { X \in SUBSET Placements(topo, c.cw, c.ch) :
                     Cardinality(X) <= 2 /\ \A q \in X : q.tile = tile_id } :
          LET polygons_dict == TilePolygonsDict(S, tile_id)
              ids == [i \in 1..Len(polygons_dict) |-> i]
              tp == tile_polygons_init(topo, tile_id, ids, polygons_dict, given,
                                       IF given THEN filter_dist ELSE None)
              r == IF tp.err # "ok" THEN [err |-> tp.err, value |-> <<>>]
                   ELSE tile_polygons_by_side(tp, side)
          IN  /\ given \/ filter_dist = 0
              /\ tp_call' = TilePolygonsCall("polygons_by_side", tile_id, polygons_dict,
                                             given, filter_dist, side, r)
    /\ UNCHANGED <<topo, iter_vars, merge_vars, disp_vars, wf_vars, pl_vars, tm_vars,
                   wi_merge, uf_nodes, uf_links, uf_call>>

\* TilePolygons(tile_id, topology, polygons_dict, filter_dist).polygons
TilePolygonsPolygons ==
    /\ \E c \in { mc \in MergeCases : mc.topo = topo },
          tile_id \in 1..tile_count(topo), filter_dist \in 0..(MaxTol + topo.ov) :
        \E S \in { X \in SUBSET Placements(topo, c.cw, c.ch) :
                     Cardinality(X) <= 2 /\ \A q \in X : q.tile = tile_id } :
          LET polygons_dict == TilePolygonsDict(S, tile_id)
              ids == [i \in 1..Len(polygons_dict) |-> i]
              tp == tile_polygons_init(topo, tile_id, ids, polygons_dict, TRUE, filter_dist)
          IN  tp_call' = TilePolygonsCall("polygons", tile_id, polygons_dict, TRUE,
                                          filter_dist, NONE, tile_polygons_polygons(tp))
    /\ UNCHANGED <<topo, iter_vars, merge_vars, disp_vars, wf_vars, pl_vars, tm_vars,
                   wi_merge, uf_nodes, uf_links, uf_call>>

TilePolygonsNext == TilePolygonsBySide \/ TilePolygonsPolygons

SpecTilePolygons == TilePolygonsInit /\ [][TilePolygonsNext]_vars

(***************************************************************************)
(* SpecUnionFind: a UnionFind is built over some elements, then union,     *)
(* find, same and connected_components are called in any order, with       *)
(* elements of the structure and with one that is not.                     *)
(***************************************************************************)
MaxElems == 3      \* a UnionFind holds the elements 1..n for n in 1..MaxElems

UnionFindInit ==
    /\ topo = NoTopology
    /\ IterIdle /\ PoolIdle /\ TimingIdle /\ MergeIdle /\ DispatchIdle /\ WorkflowIdle
    /\ wi_merge = NoInformationMerge /\ tp_call = NoTilePolygonsCall
    /\ \E n \in 1..MaxElems :
          /\ uf_nodes = uf_init(1..n)
          /\ uf_links = { {e} : e \in 1..n }
    /\ uf_call = NoUnionFindCall

\* The elements a call is made with: those of the structure and one more.
UnionFindArgs == 1..(Cardinality(DOMAIN uf_nodes) + 1)

\* The sets of elements after one more union of elem1 and elem2.
JoinSets(sets, elem1, elem2) ==
    LET joined == UNION { S \in sets : elem1 \in S \/ elem2 \in S }
    IN  { S \in sets : elem1 \notin S /\ elem2 \notin S } \cup { joined }

UnionFindCall(op, elem1, elem2, value, nodes) ==
    [op |-> op, elem1 |-> elem1, elem2 |-> elem2, value |-> value,
     changed |-> nodes # uf_nodes]

UnionFindUnion ==
    /\ \E elem1 \in UnionFindArgs, elem2 \in UnionFindArgs :
          LET nodes == uf_union(uf_nodes, elem1, elem2)
          IN  /\ uf_nodes' = nodes
              /\ uf_links' = IF uf_has(uf_nodes, elem1) /\ uf_has(uf_nodes, elem2)
                             THEN JoinSets(uf_links, elem1, elem2)
                             ELSE uf_links
              /\ uf_call' = UnionFindCall("union", elem1, elem2,
                                          uf_union_value(uf_nodes, elem1, elem2), nodes)
    /\ UNCHANGED <<topo, iter_vars, merge_vars, disp_vars, wf_vars, pl_vars, tm_vars,
                   wi_merge, tp_call>>

UnionFindFind ==
    /\ \E elem \in UnionFindArgs :
          LET f == uf_find(uf_nodes, elem)
          IN  /\ uf_nodes' = f.nodes
              /\ uf_call' = UnionFindCall("find", elem, elem, f.parent, f.nodes)
    /\ UNCHANGED <<topo, iter_vars, merge_vars, disp_vars, wf_vars, pl_vars, tm_vars,
                   wi_merge, tp_call, uf_links>>

UnionFindSame ==
    /\ \E elem1 \in UnionFindArgs, elem2 \in UnionFindArgs :
          LET r == uf_same(uf_nodes, elem1, elem2)
          IN  /\ uf_nodes' = r.nodes
              /\ uf_call' = UnionFindCall("same", elem1, elem2, r.same, r.nodes)
    /\ UNCHANGED <<topo, iter_vars, merge_vars, disp_vars, wf_vars, pl_vars, tm_vars,
                   wi_merge, tp_call, uf_links>>

UnionFindComponents ==
    /\ LET elems == [i \in 1..Cardinality(DOMAIN uf_nodes) |-> i]
           nodes == uf_nodes_after_components(uf_nodes, elems, 1)
       IN  /\ uf_nodes' = nodes
           /\ uf_call' = UnionFindCall("connected_components", None, None,
                                       connected_components(uf_nodes, elems), nodes)
    /\ UNCHANGED <<topo, iter_vars, merge_vars, disp_vars, wf_vars, pl_vars, tm_vars,
                   wi_merge, tp_call, uf_links>>

UnionFindNext ==
    \/ UnionFindUnion
    \/ UnionFindFind
    \/ UnionFindSame
    \/ UnionFindComponents

SpecUnionFind == UnionFindInit /\ [][UnionFindNext]_vars

(***************************************************************************)
(* C10: the tiles of a TileTopology cover the image.  Every tile the       *)
(* iterator yields is built without error, is at least 1 x 1 and lies      *)
(* inside the image; once the iterator has yielded tiles 1..tile_count,    *)
(* every pixel of the image has been seen in at least one tile.            *)
(***************************************************************************)
TilesCoverImage ==
    /\ it_next > 1 =>
          /\ it_tile.err = "ok"
          /\ it_tile.width >= 1 /\ it_tile.height >= 1
          /\ TilePixels(it_tile) \subseteq ImagePixels(topo)
    /\ IterDone => it_covered = ImagePixels(topo)

\* The iteration is over for a topology of several tiles that overlap and whose
\* last tile is clipped by the image border.
TilesCoverImageWitness ==
    /\ IterDone
    /\ tile_horizontal_count(topo) >= 2 /\ tile_vertical_count(topo) >= 2
    /\ topo.ov >= 1
    /\ it_tile.err = "ok" /\ it_tile.width < topo.mw /\ it_tile.height < topo.mh

(***************************************************************************)
(* The statements about merge are written from the tiles' places in the    *)
(* grid and the polygons' rectangles.                                      *)
(***************************************************************************)
PolyIds == 1..Len(m_records)

\* The side of tile a that faces tile b, when b is the tile just above,
\* below, left or right of a in the grid (NONE otherwise).
FacingSide(a, b) ==
    LET ca == tile_coord(topo, a)
        cb == tile_coord(topo, b)
    IN  CASE ca.col = cb.col /\ cb.row = ca.row - 1 -> TOP
          [] ca.col = cb.col /\ cb.row = ca.row + 1 -> BOTTOM
          [] ca.row = cb.row /\ cb.col = ca.col - 1 -> LEFT
          [] ca.row = cb.row /\ cb.col = ca.col + 1 -> RIGHT
          [] OTHER -> NONE

\* Polygon p is a border candidate of its tile on the given side: it meets
\* the band of width tolerance + overlap along that side.
BorderCandidate(p, side) ==
    intersects(side_box(tile(topo, m_records[p].tile), m_in.tolerance + topo.ov, side),
               m_records[p].polygon)

\* p and q sit on the facing sides of two neighbouring tiles.
Facing(p, q) ==
    LET a == m_records[p].tile
        b == m_records[q].tile
    IN  /\ FacingSide(a, b) # NONE
        /\ BorderCandidate(p, FacingSide(a, b))
        /\ BorderCandidate(q, FacingSide(b, a))

Closer(p, q) ==
    Dist2(m_records[p].polygon, m_records[q].polygon) < m_in.tolerance * m_in.tolerance

\* The direct unions the merge is meant to make.
DirectMerge(p, q) ==
    /\ Facing(p, q)
    /\ m_records[p].label = m_records[q].label
    /\ Closer(p, q)

\* The polygons linked to p by a chain of direct unions.
Linked(p) ==
    LET RECURSIVE grow(_)
        grow(S) == LET S2 == S \cup { q \in PolyIds : \E r \in S : DirectMerge(r, q) }
                   IN  IF S2 = S THEN S ELSE grow(S2)
    IN  grow({p})

\* The identifiers of the members of the c-th output of merge.
OutMembers(c) == { m_out[c].ids[i] : i \in 1..Len(m_out[c].ids) }

SameOutput(p, q) == \E c \in 1..Len(m_out) : p \in OutMembers(c) /\ q \in OutMembers(c)

MergeDone == m_pc = "done" /\ m_records # <<>>

(***************************************************************************)
(* C4: merge unites two polygons directly only if they sit on the facing   *)
(* sides of two neighbouring tiles, carry the same label and are closer    *)
(* than the tolerance; every such pair ends in the same output, and the    *)
(* outputs are exactly the classes of the transitive closure of these      *)
(* direct unions (each polygon in exactly one output).                     *)
(***************************************************************************)
MergeIsClosureOfDirectUnions ==
    /\ m_pc \in {"register", "done"} =>
          \A pr \in m_unions : DirectMerge(pr[1], pr[2])
    /\ MergeDone =>
          /\ \A p \in PolyIds : \E c \in 1..Len(m_out) :
                /\ p \in OutMembers(c)
                /\ OutMembers(c) = Linked(p)
                /\ \A d \in 1..Len(m_out) : p \in OutMembers(d) => d = c
          /\ \A c \in 1..Len(m_out) : OutMembers(c) # {}

\* A merge that returned an output of three polygons or more, reached by a
\* chain, next to another output.
MergeIsClosureWitness ==
    /\ MergeDone
    /\ Len(m_out) >= 2
    /\ \E c \in 1..Len(m_out) : \E p, q \in OutMembers(c) :
          /\ Cardinality(OutMembers(c)) >= 3
          /\ p # q /\ ~DirectMerge(p, q) /\ ~DirectMerge(q, p)
    /\ \E p, q \in PolyIds : Closer(p, q) /\ p # q /\ ~SameOutput(p, q)

(***************************************************************************)
(* C5: polygons with different labels never end in the same output: all    *)
(* the members of an output carry one label, the label returned for it.    *)
(***************************************************************************)
OutputsHaveOneLabel ==
    MergeDone =>
        \A c \in 1..Len(m_out) : \A p \in OutMembers(c) :
            m_records[p].label = m_out[c].label

\* Two polygons of different labels on facing sides, closer than the
\* tolerance, each merged with a polygon of its own label.
OutputsHaveOneLabelWitness ==
    /\ MergeDone
    /\ \E p, q \in PolyIds :
          /\ Facing(p, q) /\ Closer(p, q)
          /\ m_records[p].label # m_records[q].label
          /\ \E c \in 1..Len(m_out) : p \in OutMembers(c) /\ Cardinality(OutMembers(c)) >= 2

(***************************************************************************)
(* C6, as claimed: two polygons of one label on the facing sides of two    *)
(* neighbouring tiles, at a distance of at least the tolerance, are in     *)
(* different outputs, whatever other polygons are present.                 *)
(***************************************************************************)
FarPolygonsStaySeparate ==
    MergeDone =>
        \A p, q \in PolyIds :
            (/\ p # q
             /\ Facing(p, q)
             /\ m_records[p].label = m_records[q].label
             /\ ~Closer(p, q))
            => ~SameOutput(p, q)

(***************************************************************************)
(* C6, amended: two such polygons are never united directly; they are in   *)
(* the same output only when each is directly united with a third polygon  *)
(* of that output (a chain links them).  With tolerance 0 nothing is       *)
(* merged: one output per input polygon.                                   *)
(***************************************************************************)
FarPolygonsMergeOnlyByChain ==
    /\ m_pc \in {"register", "done"} =>
          \A p, q \in PolyIds :
              ~Closer(p, q) => <<p, q>> \notin m_unions /\ <<q, p>> \notin m_unions
    /\ MergeDone =>
          /\ \A p, q \in PolyIds :
                (p # q /\ ~Closer(p, q) /\ SameOutput(p, q)) =>
                    /\ \E r \in PolyIds \ {p, q} :
                          SameOutput(p, r) /\ (DirectMerge(p, r) \/ DirectMerge(r, p))
                    /\ \E r \in PolyIds \ {p, q} :
                          SameOutput(q, r) /\ (DirectMerge(q, r) \/ DirectMerge(r, q))
          /\ m_in.tolerance = 0 =>
                /\ Len(m_out) = Len(m_records)
                /\ \A c \in 1..Len(m_out) : m_out[c].ids = <<c>>

\* Two polygons at exactly the tolerance on facing sides, left in two outputs.
FarPolygonsWitness ==
    /\ MergeDone
    /\ m_in.tolerance >= 1
    /\ \E p, q \in PolyIds :
          /\ p # q /\ Facing(p, q)
          /\ m_records[p].label = m_records[q].label
          /\ Dist2(m_records[p].polygon, m_records[q].polygon)
                = m_in.tolerance * m_in.tolerance
          /\ ~SameOutput(p, q)

(***************************************************************************)
(* Rule-based dispatch.                                                    *)
(***************************************************************************)
DispatchDone == d_pc = "done"

\* The rules, counted from 1, that are true of the polygon at position k.
RulesTrueOf(k) ==
    { i \in 1..Len(d_in.rules) : kind_of(d_in.polygons[k]) \in d_in.rules[i] }

FirstRuleTrueOf(k) == CHOOSE i \in RulesTrueOf(k) : \A j \in RulesTrueOf(k) : i <= j

ObservedLabels ==
    { d_st.disp_labels[k] : k \in 1..Len(d_in.polygons) } \ {NoLabel}

Carrying(l) == { k \in 1..Len(d_in.polygons) : d_st.disp_labels[k] = l }

\* C9: one dispatch_classify_batch call invokes a classifier as many times as
\* there are distinct dispatch labels observed, unmatched apart: once for each
\* observed label, on exactly the polygons that carry it, by a classifier
\* registered for that label; never on an unmatched polygon, never for a
\* label no polygon received.
OneInvocationPerObservedLabel ==
    DispatchDone =>
        /\ Len(d_st.calls) = Cardinality(ObservedLabels)
        /\ \A l \in ObservedLabels :
            \E j \in 1..Len(d_st.calls) :
                /\ d_st.calls[j].polygons = Carrying(l)
                /\ d_st.calls[j].classifier \in 0..(Len(d_in.labels) - 1)
                /\ d_in.labels[d_st.calls[j].classifier + 1] = l
                /\ \A h \in 1..Len(d_st.calls) :
                    d_st.calls[h].polygons = Carrying(l) => h = j
        /\ \A j \in 1..Len(d_st.calls) :
            /\ d_st.calls[j].polygons # {}
            /\ \A k \in d_st.calls[j].polygons : d_st.disp_labels[k] # NoLabel

\* A call returned where a classifier was invoked once on two polygons, a
\* polygon is unmatched and a registered label was received by no polygon.
OneInvocationWitness ==
    /\ DispatchDone
    /\ \E j \in 1..Len(d_st.calls) : Cardinality(d_st.calls[j].polygons) >= 2
    /\ \E k \in 1..Len(d_in.polygons) : d_st.disp_labels[k] = NoLabel
    /\ \E i \in 1..Len(d_in.labels) : d_in.labels[i] \notin ObservedLabels

(***************************************************************************)
(* The pipeline.                                                           *)
(***************************************************************************)
\* The segment/locate results have been collected.
Collected == wf_pc \in {"Merge", "DispatchClassify", "Done"}

EntriesOf(id) == { k \in 1..Len(tiles_polygons) : tiles_polygons[k].tile = id }

PhaseSteps ==
    { <<"Idle", "SegmentLocate">>, <<"SegmentLocate", "Merge">>,
      <<"Merge", "DispatchClassify">>, <<"DispatchClassify", "Done">>,
      <<"SegmentLocate", "Aborted">> }

\* Every tile of every segment/locate batch has been processed and the batch
\* has returned.
BatchesAllReturned ==
    \A b \in 1..Len(sl_batches) :
        /\ sl_workers[b].status = "returned"
        /\ Len(sl_workers[b].tiles_polygons) = Len(sl_batches[b])

TilesInOrder ==
    [id \in 1..tile_count(topo) |->
        [tile |-> id,
         polygons |-> IF image.fetch[id] = "ok" THEN image.located[id] ELSE <<>>]]

WorkflowRulesTrueOf(polygon) ==
    { r \in 1..Len(workflow.rules) : kind_of(polygon) \in workflow.rules[r] }

ValidIds == 1..tile_count(topo)

RowOf(id) == (id - 1) \div tile_horizontal_count(topo)

ColOf(id) == (id - 1) % tile_horizontal_count(topo)

Returned(method) == tt_call.method = method /\ tt_call.err = "ok"

(***************************************************************************)
(* C11: for every identifier of 1..tile_count, tile(id) returns a tile     *)
(* that carries the identifier, lies at offset (col * (max_width -         *)
(* overlap), row * (max_height - overlap)) and has the size the image      *)
(* leaves it, min(max_width, width - offset_x) by min(max_height, height - *)
(* offset_y); the identifiers are in one-to-one correspondence with the    *)
(* cells of the grid, in row-major order.                                  *)
(***************************************************************************)
TileIsGridCell ==
    /\ (tt_call.method = "tile" /\ tt_call.id \in ValidIds) =>
          LET id == tt_call.id
              tl == tt_call.value.tile
              x == ColOf(id) * (topo.mw - topo.ov)
              y == RowOf(id) * (topo.mh - topo.ov)
          IN  /\ tt_call.err = "ok"
              /\ tl.identifier = id
              /\ tl.offset = [x |-> x, y |-> y]
              /\ tl.width = Min(topo.mw, topo.iw - x)
              /\ tl.height = Min(topo.mh, topo.ih - y)
              /\ tt_call.value.coord = [row |-> RowOf(id), col |-> ColOf(id)]
              /\ RowOf(id) \in 0..(tile_vertical_count(topo) - 1)
              /\ ColOf(id) \in 0..(tile_horizontal_count(topo) - 1)
              /\ id = RowOf(id) * tile_horizontal_count(topo) + ColOf(id) + 1
    /\ tt_call.method = "tile" =>
          \A r \in 0..(tile_vertical_count(topo) - 1),
             c \in 0..(tile_horizontal_count(topo) - 1) :
                Cardinality({ id \in ValidIds :
                    tile_coord(topo, id) = [row |-> r, col |-> c] }) = 1

\* tile returned a tile that is neither in the first row nor in the first
\* column of a grid that is not square, and that the image's border clips.
TileIsGridCellWitness ==
    /\ Returned("tile") /\ tt_call.id \in ValidIds
    /\ tt_call.value.coord.row >= 1 /\ tt_call.value.coord.col >= 1
    /\ tile_horizontal_count(topo) # tile_vertical_count(topo)
    /\ topo.ov >= 1
    /\ tt_call.value.tile.width < topo.mw

(***************************************************************************)
(* C12: along one dimension there is one tile when the length is smaller   *)
(* than the tile's, and otherwise ceil((length - overlap) / (tile_length - *)
(* overlap)) tiles, which makes 3 tiles for a length of 700, tiles of 300  *)
(* and an overlap of 100; tile_count is the product of the horizontal and  *)
(* vertical counts.                                                        *)
(***************************************************************************)
\* n is the ceiling of a / b, for b > 0.
IsCeilOf(n, a, b) == (n - 1) * b < a /\ a <= n * b

IsCount1d(n, length, tile_length, overlap) ==
    IF length < tile_length THEN n = 1
    ELSE IsCeilOf(n, length - overlap, tile_length - overlap)

TileCountIsProductOfCeilings ==
    /\ tt_call.method = "tile_count" =>
          /\ tt_call.err = "ok"
          /\ IsCount1d(tt_call.value.horizontal, topo.iw, topo.mw, topo.ov)
          /\ IsCount1d(tt_call.value.vertical, topo.ih, topo.mh, topo.ov)
          /\ tt_call.value.count = tt_call.value.horizontal * tt_call.value.vertical
    /\ tile_count_1d(700, 300, 100) = 3

\* The counts were read for an image narrower than a tile and several
\* overlapping tiles high, the last of them clipped.
TileCountWitness ==
    /\ Returned("tile_count")
    /\ topo.iw < topo.mw /\ tt_call.value.horizontal = 1
    /\ topo.ov >= 1 /\ tt_call.value.vertical >= 2
    /\ (topo.ih - topo.ov) % (topo.mh - topo.ov) # 0

(***************************************************************************)
(* C13: each of the four neighbours tile_neighbours(id) returns for an     *)
(* identifier of 1..tile_count is None or an identifier of 1..tile_count;  *)
(* the left and right ones are the previous and next cells of the same     *)
(* row, the top and bottom ones the cells above and below in the same      *)
(* column; and the relation is symmetric: id2 is the right neighbour of id *)
(* exactly when id is the left neighbour of id2, and likewise for bottom   *)
(* and top.                                                                *)
(***************************************************************************)
NeighboursAreAdjacentCells ==
    (tt_call.method = "tile_neighbours" /\ tt_call.id \in ValidIds) =>
        LET id == tt_call.id
            top == tt_call.value[1]
            bottom == tt_call.value[2]
            left == tt_call.value[3]
            right == tt_call.value[4]
        IN  /\ tt_call.err = "ok"
            /\ \A i \in 1..4 : tt_call.value[i] = None \/ tt_call.value[i] \in ValidIds
            /\ top # None => RowOf(top) = RowOf(id) - 1 /\ ColOf(top) = ColOf(id)
            /\ bottom # None => RowOf(bottom) = RowOf(id) + 1 /\ ColOf(bottom) = ColOf(id)
            /\ left # None => RowOf(left) = RowOf(id) /\ ColOf(left) = ColOf(id) - 1
            /\ right # None => RowOf(right) = RowOf(id) /\ ColOf(right) = ColOf(id) + 1
            /\ \A id2 \in ValidIds :
                  /\ right = id2 <=> tile_neighbours(topo, id2)[3] = id
                  /\ left = id2 <=> tile_neighbours(topo, id2)[4] = id
                  /\ bottom = id2 <=> tile_neighbours(topo, id2)[1] = id
                  /\ top = id2 <=> tile_neighbours(topo, id2)[2] = id

\* The neighbours were asked of the last tile of a row that has a row above
\* and a row below: it has no right neighbour although id + 1 is a tile.
NeighboursWitness ==
    /\ Returned("tile_neighbours") /\ tt_call.id \in ValidIds
    /\ tile_horizontal_count(topo) >= 2
    /\ tt_call.value[1] # None /\ tt_call.value[2] # None
    /\ tt_call.value[3] # None /\ tt_call.value[4] = None
    /\ tt_call.id + 1 \in ValidIds

(***************************************************************************)
(* C14: tile_offset(id) fails with an out-of-range error and returns no    *)
(* offset for every id < 1 and every id > tile_count, and so do tile(id)   *)
(* and tile_neighbours(id), which the same check guards.                   *)
(***************************************************************************)
OutOfRangeIdentifierFails ==
    (/\ tt_call.method \in {"tile_offset", "tile", "tile_neighbours"}
     /\ tt_call.id \notin ValidIds)
        => tt_call.err = "ValueError"

\* tile_offset returned an offset for the identifier 0.
OffsetOfIdentifierZero ==
    /\ Returned("tile_offset") /\ tt_call.id = 0
    /\ tt_call.value.y < 0

(***************************************************************************)
(* The cells of the grid of a SkipBordersTileTopology: H tiles in a row    *)
(* less the dropped column, V rows less the dropped row.                   *)
(***************************************************************************)
SkipTopo == SkipBordersTileTopology(topo)

SkipIds == 1..skip_tile_count(SkipTopo)

SkipRowOf(id) == (id - 1) \div skip_tile_horizontal_count(SkipTopo)

SkipColOf(id) == (id - 1) % skip_tile_horizontal_count(SkipTopo)

(***************************************************************************)
(* C15: in a SkipBordersTileTopology every tile that can be addressed has  *)
(* exactly the size (max_width, max_height); the identifiers are numbered  *)
(* row-major over the reduced grid; tile_neighbours returns only None or   *)
(* identifiers of the reduced grid, each the adjacent cell of the reduced  *)
(* grid on its side, and None where the neighbour is in the dropped column *)
(* or row.                                                                 *)
(***************************************************************************)
SkipBordersKeepsFullTiles ==
    /\ (tt_call.method = "skip.tile" /\ tt_call.id \in SkipIds) =>
          /\ tt_call.err = "ok"
          /\ tt_call.value.identifier = tt_call.id
          /\ tt_call.value.width = topo.mw /\ tt_call.value.height = topo.mh
          /\ tt_call.value.offset =
                [x |-> SkipColOf(tt_call.id) * (topo.mw - topo.ov),
                 y |-> SkipRowOf(tt_call.id) * (topo.mh - topo.ov)]
          /\ SkipRowOf(tt_call.id) \in 0..(skip_tile_vertical_count(SkipTopo) - 1)
    /\ (tt_call.method = "skip.tile" /\ tt_call.err = "ok") => tt_call.id \in SkipIds
    /\ (tt_call.method = "skip.tile_neighbours" /\ tt_call.id \in SkipIds) =>
          LET id == tt_call.id
              top == tt_call.value[1]
              bottom == tt_call.value[2]
              left == tt_call.value[3]
              right == tt_call.value[4]
          IN  /\ tt_call.err = "ok"
              /\ \A i \in 1..4 : tt_call.value[i] = None \/ tt_call.value[i] \in SkipIds
              /\ top # None <=> SkipRowOf(id) > 0
              /\ top # None => top = id - skip_tile_horizontal_count(SkipTopo)
              /\ bottom # None <=> SkipRowOf(id) < skip_tile_vertical_count(SkipTopo) - 1
              /\ bottom # None => bottom = id + skip_tile_horizontal_count(SkipTopo)
              /\ left # None <=> SkipColOf(id) > 0
              /\ left # None => left = id - 1
              /\ right # None <=> SkipColOf(id) < skip_tile_horizontal_count(SkipTopo) - 1
              /\ right # None => right = id + 1

\* The neighbours were asked of the last tile of a reduced grid with several
\* rows and columns, in a topology that dropped its last column and its last
\* row: the tiles on its right and below are dropped.
SkipBordersWitness ==
    /\ Returned("skip.tile_neighbours") /\ tt_call.id \in SkipIds
    /\ SkipTopo.skip_h /\ SkipTopo.skip_v
    /\ SkipRowOf(tt_call.id) >= 1
    /\ tt_call.value[1] # None /\ tt_call.value[3] # None
    /\ tt_call.value[2] = None /\ tt_call.value[4] = None

(***************************************************************************)
(* C16: in a FixedSizeTileTopology every tile has exactly the size         *)
(* (max_width, max_height) whenever the image is at least that large; the  *)
(* tiles of the last column lie at x = width - max_width and those of the  *)
(* last row at y = height - max_height; no offset is negative, the offset  *)
(* of an image smaller than a tile being 0; every tile lies inside the     *)
(* image and the tiles together cover it.                                  *)
(***************************************************************************)
FixedSizeShiftsLastTiles ==
    (tt_call.method = "fixed.tile" /\ tt_call.id \in ValidIds) =>
        LET id == tt_call.id
            tl == tt_call.value
        IN  /\ tt_call.err = "ok"
            /\ (topo.iw >= topo.mw /\ topo.ih >= topo.mh) =>
                  tl.width = topo.mw /\ tl.height = topo.mh
            /\ ColOf(id) = tile_horizontal_count(topo) - 1 =>
                  tl.offset.x = Max(topo.iw - topo.mw, 0)
            /\ RowOf(id) = tile_vertical_count(topo) - 1 =>
                  tl.offset.y = Max(topo.ih - topo.mh, 0)
            /\ ColOf(id) < tile_horizontal_count(topo) - 1 =>
                  tl.offset.x = ColOf(id) * (topo.mw - topo.ov)
            /\ RowOf(id) < tile_vertical_count(topo) - 1 =>
                  tl.offset.y = RowOf(id) * (topo.mh - topo.ov)
            /\ tl.offset.x >= 0 /\ tl.offset.y >= 0
            /\ TilePixels(tl) \subseteq ImagePixels(topo)
            /\ UNION { TilePixels(fixed_tile(topo, i)) : i \in ValidIds }
                  = ImagePixels(topo)

\* The last tile of a grid was asked, where the regular topology would clip
\* it on both sides: it is moved left and up and has the full size.
FixedSizeWitness ==
    /\ Returned("fixed.tile") /\ tt_call.id = tile_count(topo)
    /\ tile_horizontal_count(topo) >= 2 /\ tile_vertical_count(topo) >= 2
    /\ tile(topo, tt_call.id).width < topo.mw
    /\ tile(topo, tt_call.id).height < topo.mh
    /\ tt_call.value.offset.x < tile_offset(topo, tt_call.id).x
    /\ tt_call.value.offset.y < tile_offset(topo, tt_call.id).y
    /\ tt_call.value.width = topo.mw /\ tt_call.value.height = topo.mh

(***************************************************************************)
(* C17: partition_identifiers(n) returns min(n, tile_count) batches, none  *)
(* empty, whose concatenation is 1..tile_count in order; each batch is a   *)
(* run of consecutive identifiers; the sizes are ceil(tile_count / n) or   *)
(* floor(tile_count / n), the larger batches first; with more batches      *)
(* asked than there are tiles, each batch holds one identifier.            *)
(***************************************************************************)
PartitionIsContiguousAndBalanced ==
    tt_call.method = "partition_identifiers" =>
        LET n == tt_call.id
            batches == tt_call.value
            total == tile_count(topo)
        IN  /\ tt_call.err = "ok"
            /\ Len(batches) = Min(n, total)
            /\ \A k \in 1..Len(batches) :
                  /\ Len(batches[k]) >= 1
                  /\ \A j \in 1..(Len(batches[k]) - 1) :
                        batches[k][j + 1] = batches[k][j] + 1
            /\ Flatten(batches) = [i \in 1..total |-> i]
            /\ n <= total =>
                  \A k \in 1..Len(batches) :
                      \/ Len(batches[k]) = total \div n
                      \/ Len(batches[k]) = CeilDiv(total, n)
            /\ \A k, l \in 1..Len(batches) :
                  k < l => Len(batches[k]) >= Len(batches[l])
            /\ n > total => \A k \in 1..Len(batches) : Len(batches[k]) = 1

\* The identifiers were split in several batches of two sizes.
PartitionWitness ==
    /\ Returned("partition_identifiers")
    /\ tt_call.id >= 3 /\ Len(tt_call.value) = tt_call.id
    /\ Len(tt_call.value[1]) > Len(tt_call.value[tt_call.id])
    /\ Len(tt_call.value[tt_call.id]) >= 2

(***************************************************************************)
(* C18: over any sequence of process calls and assignments of n_jobs on a  *)
(* workflow, the pool is built on first use and not before; a process call *)
(* that finds a pool uses it and builds none; assigning n_jobs its current *)
(* value keeps the pool, assigning another value discards it, and the next *)
(* process call builds a pool for the new value; a pool that exists has    *)
(* the workflow's current n_jobs.                                          *)
(***************************************************************************)
PoolFollowsNJobs ==
    /\ pool # None => pool = n_jobs
    /\ pool_made = 0 => pool = None
    /\ pool_op.op = "none" => pool = None
    /\ pool_op.op = "process" =>
          /\ pool # None /\ n_jobs = pool_op.before.n_jobs
          /\ pool_op.before.pool # None =>
                pool = pool_op.before.pool /\ pool_made = pool_op.before.made
          /\ pool_op.before.pool = None =>
                pool = n_jobs /\ pool_made = pool_op.before.made + 1
    /\ pool_op.op = "n_jobs" =>
          /\ n_jobs = pool_op.value /\ pool_made = pool_op.before.made
          /\ pool_op.value = pool_op.before.n_jobs => pool = pool_op.before.pool
          /\ pool_op.value # pool_op.before.n_jobs => pool = None

\* A pool was built, n_jobs was assigned another value, and process has just
\* built a second pool for it.
PoolWitness ==
    /\ pool_op.op = "process" /\ pool_op.before.pool = None
    /\ pool_made = 2 /\ pool = n_jobs

(***************************************************************************)
(* The statements about timings are written from the durations a timing    *)
(* holds for a key, none when the key is absent.                           *)
(***************************************************************************)
TimesOf(tm, key) == IF key \in DOMAIN tm.times THEN tm.times[key] ELSE <<>>

RECURSIVE SeqSum(_)
SeqSum(seq) == IF seq = <<>> THEN 0 ELSE Head(seq) + SeqSum(Tail(seq))

(***************************************************************************)
(* C19: merge_timings(t1, t2) returns a new timing that holds, for every   *)
(* phase of t1 or t2, the durations of t1 followed by those of t2 (those   *)
(* of the one timing that has the phase when the other has not), and no    *)
(* other phase; merge_timings(t2, t1) holds as many durations with the     *)
(* same sum for every phase; t1 and t2 are as they were before the call.   *)
(***************************************************************************)
MergeTimingsConcatenates ==
    tm_merge.order \in {"12", "21"} =>
        LET t1 == tm_merge.in1
            t2 == tm_merge.in2
            keys == DOMAIN t1.times \cup DOMAIN t2.times
        IN  /\ DOMAIN tm_merge.merged.times = keys
            /\ tm_merge.order = "12" =>
                  \A k \in keys :
                     tm_merge.merged.times[k] = TimesOf(t1, k) \o TimesOf(t2, k)
            /\ \A k \in keys :
                  /\ Len(tm_merge.merged.times[k]) = Len(TimesOf(t1, k)) + Len(TimesOf(t2, k))
                  /\ SeqSum(tm_merge.merged.times[k])
                        = SeqSum(TimesOf(t1, k)) + SeqSum(TimesOf(t2, k))
            /\ tm_merge.timing1 = t1 /\ tm_merge.timing2 = t2

\* Two timings that share a phase with different durations, and have each a
\* phase of their own, were merged with the second one first.
MergeTimingsWitness ==
    /\ tm_merge.order = "21"
    /\ \E k \in DOMAIN tm_merge.in1.times \cap DOMAIN tm_merge.in2.times :
          /\ tm_merge.in1.times[k] # tm_merge.in2.times[k]
          /\ tm_merge.merged.times[k] = tm_merge.in2.times[k] \o tm_merge.in1.times[k]
          /\ tm_merge.merged.times[k] # tm_merge.in1.times[k] \o tm_merge.in2.times[k]

(***************************************************************************)
(* C20: whatever the order of the calls of start and end on several        *)
(* phases, a call of end that completes a started phase appends one        *)
(* duration, not negative, to the list of that phase and changes no other  *)
(* list, and no other call changes a list; the list of a phase is as long  *)
(* as the phase has completed pairs of start and end; with a root, the     *)
(* list of a phase is stored under root + '.' + phase.                     *)
(***************************************************************************)
\* The key of a phase: the phase after the names of the root, if any.
KeyOf(phase) == IF timing.root = NoRoot THEN phase ELSE timing.root \o phase

EachPairAppendsOneDuration ==
    tm_call.op \in {"start", "end"} =>
        LET completes == /\ tm_call.op = "end"
                         /\ tm_call.phase \in ValidPhases
                         /\ KeyOf(tm_call.phase) \in DOMAIN tm_call.before.starts
        IN  /\ DOMAIN timing.times \subseteq { KeyOf(ph) : ph \in ValidPhases }
            /\ \A ph \in ValidPhases :
                  /\ Len(TimesOf(timing, KeyOf(ph))) = tm_pairs[ph].pairs
                  /\ \A i \in 1..Len(TimesOf(timing, KeyOf(ph))) :
                        TimesOf(timing, KeyOf(ph))[i] >= 0
                  /\ (completes /\ ph = tm_call.phase) =>
                        /\ tm_call.err = "ok"
                        /\ Len(TimesOf(timing, KeyOf(ph)))
                              = Len(TimesOf(tm_call.before, KeyOf(ph))) + 1
                        /\ SubSeq(TimesOf(timing, KeyOf(ph)), 1,
                                  Len(TimesOf(tm_call.before, KeyOf(ph))))
                              = TimesOf(tm_call.before, KeyOf(ph))
                  /\ ~(completes /\ ph = tm_call.phase) =>
                        TimesOf(timing, KeyOf(ph)) = TimesOf(tm_call.before, KeyOf(ph))
            /\ ~completes => timing.times = tm_call.before.times

\* With a root, a phase and its sub-phase were started, the phase ended and
\* the sub-phase ended after it, some time after its start.
EachPairWitness ==
    /\ timing.root # NoRoot
    /\ tm_call.op = "end" /\ tm_call.err = "ok"
    /\ tm_call.phase = <<"phase1", "phase3">>
    /\ tm_pairs[<<"phase1">>].pairs = 1 /\ tm_pairs[<<"phase1", "phase3">>].pairs = 1
    /\ tm_call.n = 5
    /\ timing.times[<<"root", "phase1", "phase3">>] = <<2>>
    /\ Len(timing.times[<<"root", "phase1">>]) = 1

(***************************************************************************)
(* C21: end(phase) for a phase without a pending start, and total(phase)   *)
(* and get_phase_statistics(phase) for a phase without a recorded          *)
(* duration, each raise KeyError and leave the recorded durations as they  *)
(* were.                                                                   *)
(***************************************************************************)
MissingPhaseRaisesKeyError ==
    LET missing ==
            /\ tm_call.op \in {"end", "total", "get_phase_statistics"}
            /\ tm_call.phase \in ValidPhases
            /\ IF tm_call.op = "end"
               THEN KeyOf(tm_call.phase) \notin DOMAIN tm_call.before.starts
               ELSE KeyOf(tm_call.phase) \notin DOMAIN tm_call.before.times
    IN  missing => tm_call.err = "KeyError" /\ timing.times = tm_call.before.times

\* total was called for a phase without a duration, next to a phase that has
\* one, and raised ValueError.
TotalOfMissingPhase ==
    /\ tm_call.op = "total" /\ tm_call.phase \in ValidPhases
    /\ KeyOf(tm_call.phase) \notin DOMAIN timing.times
    /\ DOMAIN timing.times # {}
    /\ tm_call.err = "ValueError"
    /\ timing.times = tm_call.before.times

(***************************************************************************)
(* C22: t.merge(t) leaves t unchanged: every phase has as many durations   *)
(* after the call as before.                                               *)
(***************************************************************************)
SelfMergeChangesNothing ==
    tm_merge.order = "self" =>
        /\ tm_merge.timing1 = tm_merge.in1
        /\ \A k \in DOMAIN tm_merge.in1.times :
              Len(TimesOf(tm_merge.timing1, k)) = Len(tm_merge.in1.times[k])

\* A timing with one duration for a phase was merged into itself and has two.
SelfMergeDoubles ==
    /\ tm_merge.order = "self"
    /\ \E k \in DOMAIN tm_merge.in1.times :
          /\ Len(tm_merge.in1.times[k]) = 1
          /\ tm_merge.timing1.times[k] = tm_merge.in1.times[k] \o tm_merge.in1.times[k]

(***************************************************************************)
(* C23: merging two WorkflowInformation objects whose sets of fields       *)
(* differ fails with an error and modifies neither of the two objects.     *)
(***************************************************************************)
IncompatibleMergeIsRejected ==
    (/\ wi_merge.order = "merged"
     /\ wi_merge.other0 # NoneInformation
     /\ information_fields(wi_merge.self0) # information_fields(wi_merge.other0))
    => /\ wi_merge.err # "ok"
       /\ wi_merge.self = wi_merge.self0
       /\ wi_merge.other = wi_merge.other0

\* A merge of two objects with different fields has extended the first.
IncompatibleMergeExtendsSelf ==
    /\ wi_merge.order = "merged"
    /\ wi_merge.other0 # NoneInformation
    /\ information_fields(wi_merge.self0) # information_fields(wi_merge.other0)
    /\ wi_merge.other0.polygons # <<>>
    /\ wi_merge.self.polygons = wi_merge.self0.polygons \o wi_merge.other0.polygons
    /\ wi_merge.self.extra = wi_merge.self0.extra

(***************************************************************************)
(* C24: a TilePolygons built with a filter distance of None returns, from  *)
(* polygons_by_side(side), all the polygon identifiers of the tile, for    *)
(* every side.                                                             *)
(***************************************************************************)
UnfilteredSideReturnsAll ==
    (tp_call.op = "polygons_by_side" /\ ~tp_call.given)
    => /\ tp_call.err = "ok"
       /\ tp_call.value = [i \in 1..Len(tp_call.polygons_dict) |-> i]

\* A TilePolygons holding two polygons was asked to be built with None.
UnfilteredConstructionRaises ==
    /\ tp_call.op = "polygons_by_side" /\ ~tp_call.given
    /\ Len(tp_call.polygons_dict) = 2
    /\ tp_call.err = "TypeError"

(***************************************************************************)
(* Helpers on a UnionFind: the ancestors of an element, the height of a    *)
(* tree, and the elements linked to one by the unions made so far.         *)
(***************************************************************************)
RECURSIVE Ancestor(_, _, _)
Ancestor(nodes, e, k) ==
    IF k = 0 THEN e ELSE Ancestor(nodes, nodes[e].parent, k - 1)

IsRoot(nodes, e) == nodes[e].parent = e

ReachesRoot(nodes, e) ==
    \E k \in 0..Cardinality(DOMAIN nodes) : IsRoot(nodes, Ancestor(nodes, e, k))

Depth(nodes, e) ==
    CHOOSE k \in 0..Cardinality(DOMAIN nodes) :
        /\ IsRoot(nodes, Ancestor(nodes, e, k))
        /\ \A j \in 0..(k - 1) : ~IsRoot(nodes, Ancestor(nodes, e, j))

Height(nodes, root) ==
    LET under == { e \in DOMAIN nodes : Ancestor(nodes, e, Depth(nodes, e)) = root }
    IN  CHOOSE h \in { Depth(nodes, e) : e \in under } :
            \A e \in under : Depth(nodes, e) <= h

UnionLinked(elem1, elem2) == \E S \in uf_links : elem1 \in S /\ elem2 \in S

\* The root of an element, following the parent links as they are.
RootOf(nodes, e) == Ancestor(nodes, e, Depth(nodes, e))

(***************************************************************************)
(* C25: UnionFind.union is a union by rank: of the two roots it joins, the *)
(* one of smaller rank becomes the child of the one of larger rank, so the *)
(* rank stored at a root is at least the height of its tree.               *)
(***************************************************************************)
UnionIsByRank ==
    /\ [][(uf_call'.op = "union" /\ uf_call'.value.root # None)
          => LET f1 == uf_find(uf_nodes, uf_call'.elem1)
                 f2 == uf_find(f1.nodes, uf_call'.elem2)
                 child == IF uf_call'.value.root = f1.parent THEN f2 ELSE f1
                 kept == IF uf_call'.value.root = f1.parent THEN f1 ELSE f2
             IN  child.rank <= kept.rank]_vars
    /\ [](\A e \in DOMAIN uf_nodes :
             IsRoot(uf_nodes, e) => uf_nodes[e].rank >= Height(uf_nodes, e))

\* A union has joined two roots and the tree of the root it kept is higher
\* than the rank stored at that root.
TreeHigherThanRank ==
    /\ uf_call.op = "union" /\ uf_call.value.root # None
    /\ IsRoot(uf_nodes, uf_call.value.root)
    /\ uf_nodes[uf_call.value.root].rank < Height(uf_nodes, uf_call.value.root)

(***************************************************************************)
(* C27: after any sequence of union, find and same, every element reaches  *)
(* a self-parented root through its parent links; same(a, b) answers       *)
(* whether a and b are linked by the unions made so far; find, same and    *)
(* connected_components never change which elements are together; and      *)
(* connected_components returns every element in exactly one component.    *)
(***************************************************************************)
\* uf_links is changed by union alone, so the second conjunct, holding after
\* a find, a same or a connected_components, says the call has moved no
\* element to another set.
UnionFindKeepsTheSets ==
    /\ \A e \in DOMAIN uf_nodes : ReachesRoot(uf_nodes, e)
    /\ LET root == [e \in DOMAIN uf_nodes |-> RootOf(uf_nodes, e)]
       IN  \A e1 \in DOMAIN uf_nodes, e2 \in DOMAIN uf_nodes :
              (root[e1] = root[e2]) <=> UnionLinked(e1, e2)
    /\ uf_call.op = "same"
       => uf_call.value = (/\ uf_has(uf_nodes, uf_call.elem1)
                           /\ uf_has(uf_nodes, uf_call.elem2)
                           /\ UnionLinked(uf_call.elem1, uf_call.elem2))
    /\ uf_call.op = "find"
       => uf_call.value = IF uf_has(uf_nodes, uf_call.elem1)
                          THEN RootOf(uf_nodes, uf_call.elem1)
                          ELSE None
    /\ uf_call.op = "connected_components"
       => LET comps == uf_call.value
              Members(c) == { comps[c][j] : j \in 1..Len(comps[c]) }
          IN  /\ \A e \in DOMAIN uf_nodes :
                    Cardinality({ c \in 1..Len(comps) : e \in Members(c) }) = 1
              /\ \A c \in 1..Len(comps) :
                    /\ Cardinality(Members(c)) = Len(comps[c])
                    /\ Members(c) \in uf_links

\* A find has compressed a path of a tree that holds three elements.
PathCompressionWitness ==
    /\ uf_call.op = "find"
    /\ uf_call.changed
    /\ \E S \in uf_links : Cardinality(S) >= 3
    /\ \A e \in DOMAIN uf_nodes : Depth(uf_nodes, e) <= 1

(***************************************************************************)
(* C26: report_timing on a timing that has the root of a workflow, where   *)
(* nodes of the phase tree such as the root's own names hold no durations, *)
(* completes without raising and reports every node of the tree once.      *)
(***************************************************************************)
ReportCompletes ==
    (tm_call.op = "report_timing" /\ timing.root # NoRoot)
    => /\ tm_call.err = "ok"
       /\ \A node \in UNION { { SubSeq(k, 1, n) : n \in 1..Len(k) } : k \in DOMAIN timing.times } :
             Cardinality({ i \in 1..Len(tm_call.reported) : tm_call.reported[i] = node }) = 1

\* The report of a timing rooted at workflow.sldc, with durations for
\* detect, detect.load and merge, has raised before logging any node.
ReportRaisesAtFirstNode ==
    /\ tm_call.op = "report_timing" /\ timing.root = TIMING_ROOT
    /\ { TIMING_ROOT \o ph : ph \in ReportPhases } = DOMAIN timing.times
    /\ tm_call.err = "ValueError"
    /\ tm_call.reported = <<>>

(***************************************************************************)
(* C28: with the regular topology and every polygon inside its own tile,   *)
(* two polygons of neighbouring tiles that are closer than the tolerance   *)
(* are both border candidates, on the facing sides of their tiles, so a    *)
(* pair with one label that the distance test would merge is merged; an    *)
(* object of the overlap found once in each tile is returned once.         *)
(***************************************************************************)
BorderCandidatesLoseNoMerge ==
    MergeDone =>
        \A p \in PolyIds, q \in PolyIds :
            (/\ FacingSide(m_records[p].tile, m_records[q].tile) # NONE
             /\ Closer(p, q))
            => /\ Facing(p, q)
               /\ m_records[p].label = m_records[q].label => SameOutput(p, q)

\* One object of the overlap of two tiles, found in each of them, has come
\* out as one polygon, beside another output.
OverlapObjectReturnedOnce ==
    /\ MergeDone
    /\ topo.ov > 0
    /\ Len(m_out) >= 2
    /\ \E p \in PolyIds, q \in PolyIds :
          /\ m_records[p].tile # m_records[q].tile
          /\ m_records[p].polygon = m_records[q].polygon
          /\ FacingSide(m_records[p].tile, m_records[q].tile) # NONE
          /\ SameOutput(p, q)

(***************************************************************************)
(* C29: with the fixed-size topology, an object that lies in the enlarged  *)
(* overlap of the last column or row and is located in both tiles comes    *)
(* out of the merge as a single polygon.                                   *)
(***************************************************************************)
\* p and q are one object, found with one label in two neighbouring tiles.
SameObjectInTwoTiles(p, q) ==
    /\ m_records[p].tile # m_records[q].tile
    /\ FacingSide(m_records[p].tile, m_records[q].tile) # NONE
    /\ m_records[p].polygon = m_records[q].polygon
    /\ m_records[p].label = m_records[q].label

EnlargedOverlapObjectReturnedOnce ==
    ("fixed" \in DOMAIN topo /\ MergeDone /\ m_in.tolerance >= 1)
    => \A p \in PolyIds, q \in PolyIds :
          SameObjectInTwoTiles(p, q) => SameOutput(p, q)

\* One object found in both tiles of a fixed-size topology, with a
\* tolerance of one pixel, has come out twice.
EnlargedOverlapObjectReturnedTwice ==
    /\ "fixed" \in DOMAIN topo /\ MergeDone /\ m_in.tolerance = 1
    /\ Len(m_out) = 2
    /\ \E p \in PolyIds, q \in PolyIds : SameObjectInTwoTiles(p, q) /\ ~SameOutput(p, q)

(***************************************************************************)
(* C30: the seg_batch_size of a workflow is the batch size of the          *)
(* segment/locate phase: a worker hands its tiles to segment_batch in      *)
(* groups of seg_batch_size, and with a size k above 1 a worker that holds *)
(* at least k loadable tiles makes a call of segment_batch with k tiles.   *)
(***************************************************************************)
Loadable(b) ==
    { i \in 1..Len(sl_batches[b]) : image.fetch[sl_batches[b][i]] = "ok" }

SegBatchSizeIsUsed ==
    "seg_batch_size" \in DOMAIN workflow =>
        \A b \in 1..Len(sl_workers) :
            sl_workers[b].status = "returned" =>
                /\ Len(sl_workers[b].segmented)
                     = CeilDiv(Len(sl_batches[b]), workflow.seg_batch_size)
                /\ (/\ workflow.seg_batch_size > 1
                    /\ Cardinality(Loadable(b)) = Len(sl_batches[b])
                    /\ Len(sl_batches[b]) >= workflow.seg_batch_size)
                   => \E c \in 1..Len(sl_workers[b].segmented) :
                         sl_workers[b].segmented[c] = workflow.seg_batch_size

\* A workflow built with seg_batch_size = 3: the worker that held three
\* loadable tiles has returned after three calls of segment_batch, of one
\* tile each.
SegmentBatchOfOneTile ==
    /\ "seg_batch_size" \in DOMAIN workflow
    /\ workflow.seg_batch_size = 3
    /\ \E b \in 1..Len(sl_workers) :
          /\ sl_workers[b].status = "returned"
          /\ Cardinality(Loadable(b)) = 3
          /\ sl_workers[b].segmented = <<1, 1, 1>>

====
